---------------------------- MODULE Spec2Model ----------------------------
(***************************************************************************)
(* A model of the key/value server of this repository: the Message layer   *)
(* (src/src/message.rs), the State core (src/src/state.rs) and the         *)
(* per-connection loop with the replication fan-out (src/src/main.rs).     *)
(*                                                                         *)
(* One State (store, role, handshake state, send_rdb) is shared by all     *)
(* connection tasks.  Every task runs handle_connection: poll              *)
(* next_outgoing, drain one message of its replica mailbox, read, and      *)
(* dispatch every message read to handle_incoming.                         *)
(***************************************************************************)
EXTENDS Integers, Sequences, FiniteSets, TLC

VARIABLES
    role,             \* RoleState: "master" or "slave", fixed by State::new
    config,           \* Config: ConfigKey -> values (domain = keys configured)
    store,            \* Store.data: key -> StoreValue (domain = keys present)
    handshake_state,  \* SlaveState.handshake_state
    send_rdb,         \* MasterState.send_rdb
    now,              \* the monotonic clock read by Instant::now()
    ty,               \* per connection: Connection.ty
    pc,               \* per connection: position of its task in handle_connection
    input,            \* per connection: frames read and not yet dispatched
    message,          \* per connection: the message of the current iteration
    reciever,         \* per connection: whether its UnboundedReceiver is Some
    written,          \* per connection: every message written to its socket
    replica_senders,  \* the Vec of UnboundedSender, as the owning connections
    mailbox,          \* per connection: the content of its unbounded channel
    enqueued,         \* history: per connection, every message ever sent to its channel
    accepted,         \* history: number of SETs handle_incoming has applied to the store
    handled,          \* history: per connection, the types of the messages handled on it
    last_set,         \* history: per key, the last SET frame handled and its clock value
    nreads,           \* number of socket reads that returned bytes so far
    stream,           \* per connection: what its socket has delivered (history)
    accepted_bytes,   \* history: serialized bytes of the writes a master accepted
                      \* from clients since it shipped a snapshot
    received_bytes,   \* history: wire bytes of the messages a slave received on
                      \* its Master connection, DatabaseFile and FullResync aside
    offset,           \* the slave's offset counter (increment_offset)
    resp,             \* the RESP codec exercised on its own: bytes, value, bytes
    lock,             \* the connection whose task holds the State lock while it
                      \* is suspended in a socket write, 0 when no task does
    stalled,          \* per connection: its peer has stopped reading, and a
                      \* write to its socket does not complete
    snapshot          \* the snapshot file State::new reads: its bytes and what
                      \* decode_rdb made of them

vars == <<role, config, store, handshake_state, send_rdb, now, ty, pc, input,
          message, reciever, written, replica_senders, mailbox, enqueued,
          accepted, handled, last_set, nreads,
          stream, accepted_bytes, received_bytes, offset, resp, lock, stalled,
          snapshot>>

\* Everything but the codec's own state.
server_vars == <<role, config, store, handshake_state, send_rdb, now, ty, pc,
                 input, message, reciever, written, replica_senders, mailbox,
                 enqueued, accepted, handled, last_set, nreads,
                 stream, accepted_bytes, received_bytes, offset, lock, stalled,
                 snapshot>>

\* Config[Port]: <<>> when --port was not given, else its one value.
config_port == IF "Port" \in DOMAIN config THEN config["Port"] ELSE <<>>

----------------------------------------------------------------------------
(* Bounds of the model. *)

\* Socket reads that return bytes, over all connections of a run: of the
\* master with three connections, of the slave, of the master with one client.
MaxReads == 3
MaxSlaveReads == 4
MaxStoreReads == 3
\* Socket reads that return an error, over all connections of a run.
MaxErrors == 1
\* The monotonic clock runs from 0 to MaxTime.
MaxTime == 3
\* Socket reads that return bytes in a run of the master with two clients.
MaxClientReads == 3
\* Socket reads that return bytes in a run with pipelined requests.
MaxPipeReads == 3
\* Entries of a snapshot file given to the decoder on its own.
MaxEntries == 2
\* Entries of the snapshot file a serving master has loaded.
MaxLoadedEntries == 2
\* Socket reads that return bytes in a run of a master that loaded a snapshot.
MaxLoadedReads == 2
\* Pieces joined into one byte string of frames cut short or out of range.
MaxEdgePieces == 2
\* Socket reads that return bytes in a run of a server of either role.
MaxRoleReads == 3
\* Socket reads that return bytes in a run with a client that turns replica.
MaxKindReads == 3
\* Socket reads that return bytes in a run of fairly scheduled tasks.
MaxDrainReads == 3
\* Socket reads that return bytes in a run with peers that stop reading.
MaxLockReads == 3
\* Socket reads that return bytes in a run of a server started with flags,
\* and the number of flags on its command line.
MaxConfigReads == 2
MaxFlags == 2
\* Pieces a byte string given to the RESP codec is put together from.
MaxPieces == 3
\* -ERR replies written to one connection (the dispatch loop of a read that
\* does not parse never ends).
MaxErrorReplies == 2

Keys == {"k", "j"}
Values == {"a", "b"}

----------------------------------------------------------------------------
(* Option<Duration> and StoreExpiry. *)

None == [some |-> FALSE, ms |-> 0]
Some(d) == [some |-> TRUE, ms |-> d]

\* StoreExpiry::UnixTimestampMillis(t) in a StoreValue (None and Some(d) are
\* there no expiry and StoreExpiry::Duration(d)).
UnixTimestampMillis(t) == [some |-> TRUE, ms |-> t, unix |-> TRUE]
IsUnixTimestamp(e) == "unix" \in DOMAIN e

(* Message (message.rs): one record shape for every variant.  src, ord, at *)
(* and re are history fields: the connection the message was read from,    *)
(* for a SET its place in the order in which handle_incoming applied the   *)
(* SETs to the store (for a reply: how many SETs had been applied when it  *)
(* was produced), the clock value its handler read, and for a reply the    *)
(* number, on its connection, of the request it answers.  The value of     *)
(* a ConfigGetRequest is history too: the parameter name as it was sent.   *)
Msg(t) ==
    [type |-> t, key |-> "", value |-> "", expiry |-> None,
     replication_id |-> "", offset |-> 0, sections |-> <<>>, values |-> <<>>,
     src |-> 0, ord |-> 0, at |-> 0, re |-> 0]

NoMessage == Msg("None")

\* A socket that has delivered nothing: eof when a read returned 0 bytes,
\* bad the number of complete frames read that are no command, split the
\* number of reads that ended in the middle of a frame, piped the number of
\* reads that returned more than one frame.
NoStream == [eof |-> FALSE, bad |-> 0, split |-> 0, piped |-> 0]

REPLICATION_ID == "8371b4fb1155b71f4a04d3e1bc3e18c4a990aeeb"

----------------------------------------------------------------------------
(* Config (config.rs). *)

\* str::to_ascii_lowercase on the parameter names the model uses.
ToAsciiLowercase(s) ==
    CASE s = "DIR" -> "dir"
      [] s = "PORT" -> "port"
      [] OTHER -> s

\* ConfigKey::deserialize: every name is a key, the names it does not know
\* are the key Unknown.
ConfigKeyDeserialize(s) ==
    CASE ToAsciiLowercase(s) = "dir" -> "Dir"
      [] ToAsciiLowercase(s) = "dbfilename" -> "DbFilename"
      [] ToAsciiLowercase(s) = "port" -> "Port"
      [] ToAsciiLowercase(s) = "replicaof" -> "ReplicaOf"
      [] OTHER -> "Unknown"

\* ConfigKey::serialize: the name of a key; "Panic" for Unknown
\* (unreachable!()).
ConfigKeySerialize(k) ==
    CASE k = "Dir" -> "dir"
      [] k = "DbFilename" -> "dbfilename"
      [] k = "Port" -> "port"
      [] k = "ReplicaOf" -> "replicaof"
      [] k = "Unknown" -> "Panic"

\* ConfigKey::value_count.
ValueCount(k) == IF k = "ReplicaOf" THEN 2 ELSE 1

\* HashMap::insert on the Config map.
ConfigInsert(cfg, k, vs) ==
    [x \in DOMAIN cfg \cup {k} |-> IF x = k THEN vs ELSE cfg[x]]

\* str::starts_with("--") and strip_prefix("--") on the arguments of the
\* model.
StartsWithDashes(arg) ==
    arg \in {"--dir", "--dbfilename", "--port", "--PORT", "--replicaof", "--foo"}

StripPrefix(arg) ==
    CASE arg = "--dir" -> "dir"
      [] arg = "--dbfilename" -> "dbfilename"
      [] arg = "--port" -> "port"
      [] arg = "--PORT" -> "PORT"
      [] arg = "--replicaof" -> "replicaof"
      [] arg = "--foo" -> "foo"

\* Config::parse, the for loop over the arguments behind the program name:
\* cfg is the map so far, key the current key (<<>> for None) and vs the
\* current values; ok is FALSE after the bail.
RECURSIVE ConfigParseLoop(_, _, _, _)
ConfigParseLoop(args, cfg, key, vs) ==
    IF args = <<>> THEN [ok |-> TRUE, config |-> cfg]
    ELSE LET arg == Head(args) IN
         IF key # <<>>
         THEN LET vs2 == Append(vs, arg)
              IN  IF Len(vs2) = ValueCount(key[1])
                  THEN ConfigParseLoop(Tail(args), ConfigInsert(cfg, key[1], vs2),
                                       <<>>, <<>>)
                  ELSE ConfigParseLoop(Tail(args), cfg, key, vs2)
         ELSE IF StartsWithDashes(arg)
         THEN ConfigParseLoop(Tail(args), cfg,
                              <<ConfigKeyDeserialize(StripPrefix(arg))>>, vs)
         ELSE [ok |-> FALSE, config |-> cfg]

\* Config::parse.
ConfigParse(args) == ConfigParseLoop(args, << >>, <<>>, <<>>)

\* State::new: the role the configuration gives.
RoleOf(cfg) == IF "ReplicaOf" \in DOMAIN cfg THEN "slave" ELSE "master"

----------------------------------------------------------------------------
(* Frames on the wire, after RespValue::deserialize: the command name and  *)
(* its arguments.  opt/ms are the 4th and 5th element of a SET: ms is the  *)
(* number the 5th element spells, negative when it does not parse as u64;  *)
(* sections are the elements behind INFO.                                  *)
Frame(n) == [name |-> n, key |-> "", value |-> "", opt |-> "", ms |-> 0,
             replication_id |-> "", offset |-> 0, sections |-> <<>>]

\* str::to_ascii_uppercase on the option names and the replication id the
\* model uses.
ToAsciiUppercase(s) ==
    CASE s = "px" -> "PX"
      [] s = "ex" -> "EX"
      [] s = REPLICATION_ID -> "8371B4FB1155B71F4A04D3E1BC3E18C4A990AEEB"
      [] OTHER -> s

\* Message::deserialize, the "SET" arm: the expiry of a SET frame.
SetExpiry(f) ==
    IF ToAsciiUppercase(f.opt) = "PX"
    THEN IF f.ms >= 0 THEN Some(f.ms) ELSE None
    ELSE None

\* Message::deserialize: a frame to a Message ("Err" when it is rejected).
Deserialize(f) ==
    CASE f.name = "PING" -> Msg("Ping")
      [] f.name = "SET" ->
           [Msg("Set") EXCEPT !.key = f.key, !.value = f.value,
                              !.expiry = SetExpiry(f)]
      [] f.name = "GET" -> [Msg("GetRequest") EXCEPT !.key = f.key]
      [] f.name = "REPLCONF" ->
           [Msg("ReplicationConfig") EXCEPT !.key = f.key, !.value = f.value]
      [] f.name = "PSYNC" ->
           [Msg("PSync") EXCEPT !.replication_id = f.replication_id,
                                !.offset = f.offset]
      [] f.name = "INFO" -> [Msg("InfoRequest") EXCEPT !.sections = f.sections]
      [] f.name = "ECHO" -> [Msg("Echo") EXCEPT !.value = f.value]
      [] f.name = "COMMAND DOCS" -> Msg("CommandDocs")
      [] f.name = "CONFIG GET" ->
           [Msg("ConfigGetRequest") EXCEPT !.key = ConfigKeyDeserialize(f.key),
                                           !.value = f.key]
      [] f.name = "KEYS" -> Msg("KeysRequest")
      [] f.name = "WAIT" -> Msg("Wait")
      [] f.name = "+PONG" -> Msg("Pong")
      [] f.name = "+OK" -> Msg("Ok")
      [] f.name = "+FULLRESYNC" ->
           [Msg("FullResync") EXCEPT
                !.replication_id = ToAsciiUppercase(f.replication_id),
                                     !.offset = f.offset]
      [] f.name = "$RAW" -> Msg("DatabaseFile")
      [] OTHER -> Msg("Err")

\* Message::is_write_command.
IsWriteCommand(m) == m.type \in {"Set", "GetRequest"}

\* RespValue::deserialize, the '$' arm, on the rest of the bytes read: a
\* payload that is not a string and that nothing follows in the read ($RAW
\* as the last frame) makes data[end..end + 2] an out-of-range slice.
\* The same slice, and the assert of RespValue::deserialize on no bytes, for
\* a read that ends inside a frame behind a complete length line (PART cut
\* in the payload); a read that ends inside a length line (PART cut in the
\* header) is an Err of find_terminator instead.
DeserializePanics(in) ==
    \/ Head(in).name = "$RAW" /\ Tail(in) = <<>>
    \/ Head(in).name = "PART" /\ Head(in).key = "payload"

\* str::len of the strings of the model.
StrLen(s) ==
    CASE s = "" -> 0
      [] s \in {"k", "j", "a", "b", "?"} -> 1
      [] s \in {"PX", "px", "OK", "hi"} -> 2
      [] s \in {"SET", "GET"} -> 3
      [] s \in {"PING", "INFO", "PONG", "capa", "6380", "WAIT", "ECHO"} -> 4
      [] s = "PSYNC" -> 5
      [] s = "psync2" -> 6
      [] s = "REPLCONF" -> 8
      [] s = "FULLRESYNC" -> 10
      [] s = "listening-port" -> 14
      [] s \in {REPLICATION_ID, ToAsciiUppercase(REPLICATION_ID)} -> 40

\* The length of i64::to_string.
IntLen(n) ==
    IF n < 0 THEN (IF n > -10 THEN 2 ELSE 3)
    ELSE IF n < 10 THEN 1 ELSE IF n < 100 THEN 2 ELSE 3

\* RespValue::serialize: the bytes of a bulk string of n bytes, of an array
\* header for n elements and of a simple string of n bytes.
BulkLen(n) == 1 + IntLen(n) + 2 + n + 2
ArrayLen(n) == 1 + IntLen(n) + 2
SimpleLen(n) == 1 + n + 2

\* The number of bytes Message::serialize puts into the buffer.
SerializedLen(m) ==
    CASE m.type = "Ping" -> ArrayLen(1) + BulkLen(StrLen("PING"))
      [] m.type = "Pong" -> SimpleLen(StrLen("PONG"))
      [] m.type = "Ok" -> SimpleLen(StrLen("OK"))
      [] m.type = "Set" ->
           IF m.expiry.some
           THEN ArrayLen(5) + BulkLen(StrLen("SET")) + BulkLen(StrLen(m.key))
                + BulkLen(StrLen(m.value)) + BulkLen(StrLen("PX"))
                + BulkLen(IntLen(m.expiry.ms))
           ELSE ArrayLen(3) + BulkLen(StrLen("SET")) + BulkLen(StrLen(m.key))
                + BulkLen(StrLen(m.value))
      [] m.type = "GetRequest" ->
           ArrayLen(2) + BulkLen(StrLen("GET")) + BulkLen(StrLen(m.key))
      [] m.type = "InfoRequest" -> ArrayLen(1) + BulkLen(StrLen("INFO"))
      [] m.type = "ReplicationConfig" ->
           ArrayLen(3) + BulkLen(StrLen("REPLCONF")) + BulkLen(StrLen(m.key))
           + BulkLen(StrLen(m.value))
      [] m.type = "PSync" ->
           ArrayLen(3) + BulkLen(StrLen("PSYNC")) + BulkLen(StrLen(m.replication_id))
           + BulkLen(IntLen(m.offset))
      [] m.type = "FullResync" ->
           SimpleLen(StrLen("FULLRESYNC") + 1 + StrLen(m.replication_id) + 1
                     + IntLen(m.offset))

\* The number of bytes of a frame on the wire (the frames of the model are
\* in the encoding a Redis peer sends: no padded length, commands as given).
WireLen(f) ==
    CASE f.name = "+PONG" -> SimpleLen(StrLen("PONG"))
      [] f.name = "+OK" -> SimpleLen(StrLen("OK"))
      [] f.name = "+FULLRESYNC" ->
           SimpleLen(StrLen("FULLRESYNC") + 1 + StrLen(f.replication_id) + 1
                     + IntLen(f.offset))
      [] f.name = "SET" ->
           IF f.opt = ""
           THEN ArrayLen(3) + BulkLen(StrLen("SET")) + BulkLen(StrLen(f.key))
                + BulkLen(StrLen(f.value))
           ELSE ArrayLen(5) + BulkLen(StrLen("SET")) + BulkLen(StrLen(f.key))
                + BulkLen(StrLen(f.value)) + BulkLen(StrLen(f.opt))
                + BulkLen(IntLen(f.ms))
      [] f.name = "GET" ->
           ArrayLen(2) + BulkLen(StrLen("GET")) + BulkLen(StrLen(f.key))
      [] f.name \in {"PING", "INFO"} -> ArrayLen(1) + BulkLen(StrLen(f.name))
      [] f.name = "REPLCONF" ->
           ArrayLen(3) + BulkLen(StrLen("REPLCONF")) + BulkLen(StrLen(f.key))
           + BulkLen(StrLen(f.value))
      [] f.name = "PSYNC" ->
           ArrayLen(3) + BulkLen(StrLen("PSYNC")) + BulkLen(StrLen(f.replication_id))
           + BulkLen(IntLen(f.offset))

----------------------------------------------------------------------------
(* The State core (state.rs). *)

HandshakeStates ==
    {"Init", "PingSent", "PongRcvd", "ReplConf1Sent", "ReplConf1Rcvd",
     "ReplConf2Sent", "ReplConf2Rcvd", "PSyncSent", "Complete"}

\* State::next_outgoing, the Slave arm: the handshake state it leaves.
NextHandshakeState(hs) ==
    CASE hs = "Init" -> "PingSent"
      [] hs = "PongRcvd" -> "ReplConf1Sent"
      [] hs = "ReplConf1Rcvd" -> "ReplConf2Sent"
      [] hs = "ReplConf2Rcvd" -> "PSyncSent"
      [] OTHER -> hs

\* State::next_outgoing, the Slave arm: the message it returns.  In PongRcvd
\* the message is built from Config[Port] with unwrap(): "Panic" without it.
HandshakeMessage(hs, port) ==
    CASE hs = "Init" -> Msg("Ping")
      [] hs = "PongRcvd" ->
           IF port = <<>> THEN Msg("Panic")
           ELSE [Msg("ReplicationConfig") EXCEPT !.key = "listening-port",
                                                 !.value = port[1]]
      [] hs = "ReplConf1Rcvd" ->
           [Msg("ReplicationConfig") EXCEPT !.key = "capa", !.value = "psync2"]
      [] hs = "ReplConf2Rcvd" ->
           [Msg("PSync") EXCEPT !.replication_id = "?", !.offset = -1]
      [] OTHER -> NoMessage

\* State::next_outgoing, the Master arm: the message it returns.
RdbMessage(rdb) == IF rdb THEN Msg("DatabaseFile") ELSE NoMessage

\* State::next_outgoing: the new handshake state, the new send_rdb and the
\* message (NoMessage for None, "Panic" when it panics).
NextOutgoing(r, hs, rdb, port) ==
    IF r = "slave"
    THEN [handshake_state |-> NextHandshakeState(hs), send_rdb |-> rdb,
          msg |-> HandshakeMessage(hs, port)]
    ELSE [handshake_state |-> hs, send_rdb |-> FALSE, msg |-> RdbMessage(rdb)]

\* State::handle_incoming, the Slave arm: the handshake state after a reply.
HandshakeAfter(hs, m) ==
    CASE m.type = "Pong" /\ hs = "PingSent" -> "PongRcvd"
      [] m.type = "Ok" /\ hs = "ReplConf1Sent" -> "ReplConf1Rcvd"
      [] m.type = "Ok" /\ hs = "ReplConf2Sent" -> "ReplConf2Rcvd"
      [] m.type = "FullResync" /\ hs = "PSyncSent" -> "Complete"
      [] OTHER -> hs

\* Message::serialize, the InfoResponse arm: the RespValue the response
\* becomes.
InfoResponseValue(m) ==
    IF m.sections = <<>> THEN "NullBulkString" ELSE "OwnedBulkString"

\* A mutant of ReplicationAsked: the sections named are not looked at.
ReplicationAskedAlways(sections) == TRUE

\* The test of the InfoRequest arms: no section was named, or "replication"
\* is among those named.
ReplicationAsked(sections) ==
    sections = <<>> \/ \E i \in DOMAIN sections : sections[i] = "replication"

\* State::handle_incoming, the ConfigGetRequest arm: Some(key, values) for a
\* key of the map, None otherwise (value "None").
ConfigGetReply(cfg, key) ==
    IF key \in DOMAIN cfg
    THEN [Msg("ConfigGetResponse") EXCEPT !.key = key, !.values = cfg[key]]
    ELSE [Msg("ConfigGetResponse") EXCEPT !.value = "None"]

\* Message::serialize panics on the message: a ConfigGetResponse of the key
\* Unknown, whose name is unreachable!().
SerializePanics(m) ==
    m.type = "ConfigGetResponse" /\ m.value # "None"
    /\ ConfigKeySerialize(m.key) = "Panic"

\* State::handle_incoming, the Slave arm: Ok(None), Ok(Some(reply)) or Err.
SlaveReply(m) ==
    CASE m.type \in {"Pong", "Ok", "FullResync"} -> NoMessage
      [] m.type = "InfoRequest" ->
           IF ReplicationAsked(m.sections)
           THEN [Msg("InfoResponse") EXCEPT !.sections = <<"Replication">>,
                                            !.key = "role", !.value = "slave"]
           ELSE Msg("InfoResponse")
      [] OTHER -> Msg("Err")

\* StoreValue built by the Set arm.
StoreValue(m, t) == [data |-> m.value, updated |-> t, expiry |-> m.expiry]

\* An insert that keeps the entry of a key that is present.
InsertIfAbsent(st, k, v) ==
    [x \in DOMAIN st \cup {k} |-> IF x \in DOMAIN st THEN st[x] ELSE v]

\* HashMap::insert.
Insert(st, k, v) == [x \in DOMAIN st \cup {k} |-> IF x = k THEN v ELSE st[x]]

\* An expiry test that counts the duration from instant 0, not from updated.
ExpiredSinceStart(v, t) == v.expiry.some /\ t > v.expiry.ms

\* The expiry test of the GetRequest arm (StoreExpiry::Duration).
Expired(v, t) == v.expiry.some /\ t > v.updated + v.expiry.ms

\* A handler whose GetRequest arm removes the key it finds expired.
StoreAfterEvicting(st, m, t) ==
    IF m.type = "Set" THEN Insert(st, m.key, StoreValue(m, t))
    ELSE IF m.type = "GetRequest" /\ m.key \in DOMAIN st /\ Expired(st[m.key], t)
         THEN [x \in DOMAIN st \ {m.key} |-> st[x]]
         ELSE st

\* State::handle_incoming, the Master arm: the store after the message.
StoreAfter(st, m, t) ==
    IF m.type = "Set" THEN Insert(st, m.key, StoreValue(m, t)) ELSE st

\* SystemTime::now() in milliseconds since UNIX_EPOCH when the monotonic
\* clock reads t: here the two clocks count from the same instant.
UnixTime(t) == t

\* An expiry test of the timestamps that counts the moment of the timestamp
\* as expired.
ExpiredAtOrAfter(v, t) == v.expiry.ms <= UnixTime(t)

\* The expiry test of the GetRequest arm (StoreExpiry::UnixTimestampMillis).
ExpiredAt(v, t) == v.expiry.ms < UnixTime(t)

\* State::handle_incoming, the GetRequest arm.
GetResponse(st, k, t) ==
    IF k \in DOMAIN st
    THEN IF IF IsUnixTimestamp(st[k].expiry) THEN ExpiredAt(st[k], t)
            ELSE Expired(st[k], t)
         THEN Msg("GetResponseNotFound")
         ELSE [Msg("GetResponseFound") EXCEPT !.value = st[k].data]
    ELSE Msg("GetResponseNotFound")

\* State::handle_incoming, the PSync arm: whether it asks for a full resync.
IsFullResyncRequest(m) ==
    m.type = "PSync" /\ m.replication_id = "?" /\ m.offset = -1

\* State::handle_incoming, the Master arm: send_rdb after the message.
SendRdbAfter(rdb, m) == IF IsFullResyncRequest(m) THEN TRUE ELSE rdb

\* MasterState.replication_offset: MasterState::default() sets it and
\* nothing in state.rs assigns it afterwards.
replication_offset == 0

\* State::handle_incoming, the Master arm: Ok(None), Ok(Some(reply)) or Err.
\* The offset of an InfoResponse is its master_repl_offset.
MasterReply(st, m, t) ==
    CASE m.type = "Ping" -> Msg("Pong")
      [] m.type = "Echo" -> [Msg("Echo") EXCEPT !.value = m.value]
      [] m.type = "CommandDocs" -> Msg("CommandDocs")
      [] m.type = "Set" -> Msg("Ok")
      [] m.type = "GetRequest" -> GetResponse(st, m.key, t)
      [] m.type = "ConfigGetRequest" -> ConfigGetReply(config, m.key)
      [] m.type = "KeysRequest" -> Msg("KeysResponse")
      [] m.type = "InfoRequest" ->
           IF ReplicationAsked(m.sections)
           THEN [Msg("InfoResponse") EXCEPT !.sections = <<"Replication">>,
                                            !.key = "role", !.value = "master",
                                            !.replication_id = REPLICATION_ID,
                                            !.offset = replication_offset]
           ELSE Msg("InfoResponse")
      [] m.type = "ReplicationConfig" -> Msg("Ok")
      [] m.type = "PSync" ->
           IF IsFullResyncRequest(m)
           THEN [Msg("FullResync") EXCEPT !.replication_id = REPLICATION_ID,
                                          !.offset = replication_offset]
           ELSE NoMessage
      [] OTHER -> Msg("Err")

\* State::handle_incoming: the new state and the result.
HandleIncoming(r, st, hs, rdb, m, t) ==
    IF r = "slave"
    THEN [store |-> st, handshake_state |-> HandshakeAfter(hs, m),
          send_rdb |-> rdb, reply |-> SlaveReply(m)]
    ELSE [store |-> StoreAfter(st, m, t), handshake_state |-> hs,
          send_rdb |-> SendRdbAfter(rdb, m), reply |-> MasterReply(st, m, t)]

\* The connection's kind after a message was handled: a master marks the
\* connection a replica when it handles a PSYNC on it.
ConnectionTypeAfter(r, k, m) ==
    IF r = "master" /\ IsFullResyncRequest(m) THEN "Slave" ELSE k

\* State::increment_offset: the slave's counter grows by the length given.
IncrementOffset(o, n) == o + n

----------------------------------------------------------------------------
(* The connection loop (main.rs, handle_connection).  pc[c] is the place   *)
(* of connection c's task: "out" before next_outgoing, "rx" before the     *)
(* mailbox receive, "read" before the socket read, "dispatch" at the head  *)
(* of the while loop over the bytes read, "reg" before the mailbox         *)
(* registration, "fan" before the fan-out; "ended" after the break and     *)
(* "panicked" after a panic.                                               *)

Conns == DOMAIN pc

\* The task has returned or unwound: its receiver is dropped.
Stopped(c) == pc[c] \in {"ended", "panicked"}

\* A write that puts the message in front of what was written before.
WriteInFront(c, m) == [written EXCEPT ![c] = <<m>> \o @]

Write(c, m) == [written EXCEPT ![c] = Append(@, m)]

\* A DatabaseFile has been written to some connection.
SnapshotShipped ==
    \E c \in Conns : \E i \in DOMAIN written[c] : written[c][i].type = "DatabaseFile"

\* Lines 62-70: next_outgoing under the State lock, and the write of its
\* message (the lock guard of the if-let lives to the end of its block).
PollOutgoing(c) ==
    /\ pc[c] = "out"
    /\ LET o == NextOutgoing(role, handshake_state, send_rdb, config_port) IN
         /\ handshake_state' = o.handshake_state
         /\ send_rdb' = o.send_rdb
         /\ written' = IF o.msg.type \in {"None", "Panic"} THEN written
                       ELSE Write(c, o.msg)
         /\ pc' = [pc EXCEPT ![c] = IF o.msg.type = "Panic" THEN "panicked"
                                    ELSE IF reciever[c] THEN "rx" ELSE "read"]
    /\ UNCHANGED <<role, config, store, now, ty, input, message, reciever,
                   replica_senders, mailbox, enqueued, accepted, nreads,
                   handled, last_set,
                   stream, accepted_bytes, received_bytes, offset, resp, snapshot,
                   lock, stalled>>

\* A receive that takes the message off the mailbox and writes nothing.
TryRecvLossy(c) ==
    /\ pc[c] = "rx"
    /\ mailbox' = [mailbox EXCEPT ![c] = IF @ = <<>> THEN @ ELSE Tail(@)]
    /\ pc' = [pc EXCEPT ![c] = "read"]
    /\ UNCHANGED <<role, config, store, handshake_state, send_rdb, now, ty,
                   input, message, reciever, written, replica_senders, enqueued,
                   accepted, nreads, handled, last_set,
                   stream, accepted_bytes, received_bytes, offset, resp, snapshot,
                   lock, stalled>>

\* Lines 72-81: the zero-timeout receive from the mailbox, and the write.
TryRecv(c) ==
    /\ pc[c] = "rx"
    /\ IF mailbox[c] # <<>>
       THEN /\ written' = Write(c, Head(mailbox[c]))
            /\ mailbox' = [mailbox EXCEPT ![c] = Tail(@)]
       ELSE UNCHANGED <<written, mailbox>>
    /\ pc' = [pc EXCEPT ![c] = "read"]
    /\ UNCHANGED <<role, config, store, handshake_state, send_rdb, now, ty,
                   input, message, reciever, replica_senders, enqueued, accepted,
                   nreads,
                   handled, last_set,
                   stream, accepted_bytes, received_bytes, offset, resp, snapshot,
                   lock, stalled>>

\* Lines 83-88 and 62-70: the zero-timeout read found nothing (or read 0
\* bytes), and the next iteration polls next_outgoing.  The read touches only
\* the task's own socket, so it is one step with the poll that follows it.
ReadNothing(c) ==
    /\ pc[c] = "read"
    /\ LET o == NextOutgoing(role, handshake_state, send_rdb, config_port) IN
         /\ handshake_state' = o.handshake_state
         /\ send_rdb' = o.send_rdb
         /\ written' = IF o.msg.type \in {"None", "Panic"} THEN written
                       ELSE Write(c, o.msg)
         /\ pc' = [pc EXCEPT ![c] = IF o.msg.type = "Panic" THEN "panicked"
                                    ELSE IF reciever[c] THEN "rx" ELSE "read"]
    /\ UNCHANGED <<role, config, store, now, ty, input, message, reciever,
                   replica_senders, mailbox, enqueued, accepted, nreads,
                   handled, last_set,
                   stream, accepted_bytes, received_bytes, offset, resp, snapshot,
                   lock, stalled>>

\* What the socket has delivered after a read of bytes: a complete frame
\* that Message::deserialize rejects, or the first part of a frame.
StreamAfter(st, f) ==
    [st EXCEPT !.bad = IF f.name # "PART" /\ Deserialize(f).type = "Err"
                       THEN @ + 1 ELSE @,
               !.split = IF f.name = "PART" THEN @ + 1 ELSE @]

\* Lines 83-93: the read returned the bytes of frame f.
ReadBytes(c, f, max) ==
    /\ pc[c] = "read"
    /\ ~stream[c].eof
    /\ nreads < max
    /\ nreads' = nreads + 1
    /\ input' = [input EXCEPT ![c] = <<f>>]
    /\ stream' = [stream EXCEPT ![c] = StreamAfter(@, f)]
    /\ pc' = [pc EXCEPT ![c] = "dispatch"]
    /\ UNCHANGED <<role, config, store, handshake_state, send_rdb, now, ty,
                   message, reciever, written, replica_senders, mailbox, enqueued,
                   accepted,
                   handled, last_set,
                   accepted_bytes, received_bytes, offset, resp, snapshot,
                   lock, stalled>>

\* Lines 83-88 and 62-70: the read returned Ok(0), the peer has closed the
\* connection; the loop continues, and the next iteration polls
\* next_outgoing.
ReadEof(c) ==
    /\ pc[c] = "read"
    /\ ~stream[c].eof
    /\ stream' = [stream EXCEPT ![c].eof = TRUE]
    /\ LET o == NextOutgoing(role, handshake_state, send_rdb, config_port) IN
         /\ handshake_state' = o.handshake_state
         /\ send_rdb' = o.send_rdb
         /\ written' = IF o.msg.type \in {"None", "Panic"} THEN written
                       ELSE Write(c, o.msg)
         /\ pc' = [pc EXCEPT ![c] = IF o.msg.type = "Panic" THEN "panicked"
                                    ELSE IF reciever[c] THEN "rx" ELSE "read"]
    /\ UNCHANGED <<role, config, store, now, ty, input, message, reciever,
                   replica_senders, mailbox, enqueued, accepted, nreads,
                   handled, last_set,
                   accepted_bytes, received_bytes, offset, resp, snapshot,
                   lock, stalled>>

\* Lines 83-93: the read returned the bytes of several frames at once.
ReadPipelined(c, fs, max) ==
    /\ pc[c] = "read"
    /\ nreads < max
    /\ nreads' = nreads + 1
    /\ ~stream[c].eof
    /\ input' = [input EXCEPT ![c] = fs]
    /\ stream' = [stream EXCEPT ![c].piped = @ + 1]
    /\ pc' = [pc EXCEPT ![c] = "dispatch"]
    /\ UNCHANGED <<role, config, store, handshake_state, send_rdb, now, ty,
                   message, reciever, written, replica_senders, mailbox, enqueued,
                   accepted, handled, last_set,
                   accepted_bytes, received_bytes, offset, resp, snapshot,
                   lock, stalled>>

\* Lines 158-161: the read returned an error; the loop breaks.  Only the end
\* of a task that owns a mailbox is seen by the other tasks, so the model
\* lets the sockets of those connections fail.
ReadError(c) ==
    /\ pc[c] = "read"
    /\ reciever[c]
    /\ Cardinality({d \in Conns : pc[d] = "ended"}) < MaxErrors
    /\ pc' = [pc EXCEPT ![c] = "ended"]
    /\ UNCHANGED <<role, config, store, handshake_state, send_rdb, now, ty,
                   input, message, reciever, written, replica_senders, mailbox,
                   enqueued, accepted, nreads,
                   handled, last_set,
                   stream, accepted_bytes, received_bytes, offset, resp, snapshot,
                   lock, stalled>>

\* Where the task goes after the three checks of lines 113-144 that follow
\* handle_incoming, for those that change nothing.
Continue(rest) == IF rest = <<>> THEN "out" ELSE "dispatch"

\* A registration of every connection that has no receiver, whatever the
\* role of the server and the kind of the connection.
AfterHandleRegistersAll(c, k, m, rest) ==
    IF ~reciever[c] THEN "reg"
    ELSE IF role = "master" /\ IsWriteCommand(m) /\ k = "Client" THEN "fan"
    ELSE Continue(rest)

\* The registration without the check that the connection has no receiver.
AfterHandleEveryPsync(c, k, m, rest) ==
    IF role = "master" /\ k = "Slave" /\ m.type = "PSync" THEN "reg"
    ELSE IF role = "master" /\ IsWriteCommand(m) /\ k = "Client" THEN "fan"
    ELSE Continue(rest)

AfterHandle(c, k, m, rest) ==
    IF role = "master" /\ k = "Slave" /\ ~reciever[c] THEN "reg"
    ELSE IF role = "master" /\ IsWriteCommand(m) /\ k = "Client" THEN "fan"
    ELSE Continue(rest)

\* Whether the message counts for the slave's offset (lines 113-118).
CountsForOffset(r, k, m) ==
    r = "slave" /\ k = "Master" /\ m.type \notin {"DatabaseFile", "FullResync"}

\* Lines 93-124: one message of the bytes read is deserialized and handled
\* under the State lock, and its reply written; an Err of handle_incoming
\* panics the task, and so does a reply that serialize panics on (the
\* handlers of such replies change nothing); a slave then counts the message
\* of its master into its offset.
Handle(c, suspended) ==
    /\ pc[c] = "dispatch"
    /\ input[c] # <<>>
    /\ ~DeserializePanics(input[c])
    /\ LET d == Deserialize(Head(input[c]))
           m == [d EXCEPT !.src = c, !.at = now,
                          !.ord = IF d.type = "Set" THEN accepted + 1 ELSE 0]
           h == HandleIncoming(role, store, handshake_state, send_rdb, m, now)
           k == ConnectionTypeAfter(role, ty[c], m)
       IN  /\ m.type # "Err"
           /\ message' = [message EXCEPT ![c] = m]
           /\ input' = [input EXCEPT ![c] = Tail(@)]
           /\ received_bytes' = IF CountsForOffset(role, ty[c], m)
                                THEN received_bytes + WireLen(Head(input[c]))
                                ELSE received_bytes
           /\ IF h.reply.type = "Err" \/ SerializePanics(h.reply)
              THEN /\ ~suspended
                   /\ pc' = [pc EXCEPT ![c] = "panicked"]
                   /\ UNCHANGED <<store, handshake_state, send_rdb, ty, written,
                                  accepted, handled, last_set, accepted_bytes,
                                  offset>>
              ELSE /\ store' = h.store
                   /\ handshake_state' = h.handshake_state
                   /\ send_rdb' = h.send_rdb
                   /\ ty' = [ty EXCEPT ![c] = k]
                   /\ accepted' = IF m.type = "Set" THEN accepted + 1 ELSE accepted
                   /\ handled' = [handled EXCEPT ![c] = Append(@, m.type)]
                   /\ last_set' = IF m.type = "Set" /\ role = "master"
                                  THEN Insert(last_set, m.key,
                                              [frame |-> Head(input[c]), at |-> now,
                                               over |-> /\ m.key \in DOMAIN store
                                                        /\ store[m.key].expiry.some])
                                  ELSE last_set
                   /\ accepted_bytes' =
                         IF /\ role = "master" /\ ty[c] = "Client" /\ m.type = "Set"
                            /\ SnapshotShipped
                         THEN accepted_bytes + SerializedLen(m)
                         ELSE accepted_bytes
                   /\ offset' = IF CountsForOffset(role, k, m)
                                THEN IncrementOffset(offset, SerializedLen(m))
                                ELSE offset
                   /\ suspended => h.reply.type # "None"
                   /\ written' = IF h.reply.type = "None" \/ suspended THEN written
                                 ELSE Write(c, [h.reply EXCEPT
                                                   !.re = Len(handled[c]) + 1,
                                                   !.ord = accepted'])
                   /\ pc' = [pc EXCEPT ![c] =
                                IF suspended THEN "reply_write"
                                ELSE AfterHandle(c, k, m, Tail(input[c]))]
    /\ lock' = IF suspended /\ pc'[c] = "reply_write" THEN c ELSE lock
    /\ UNCHANGED <<role, config, now, reciever, replica_senders, mailbox,
                   enqueued, nreads, stream, resp, snapshot, stalled>>

\* Lines 93-124 with a peer that reads: the reply is written and the guard
\* of the State lock dropped.
Dispatch(c) == Handle(c, FALSE)

\* Lines 98-111 with a peer that has stopped reading: handle_incoming has
\* run, and the task is suspended in write_all inside the if-let whose
\* scrutinee holds the guard of the State lock.
SuspendInReply(c) ==
    /\ stalled[c]
    /\ Handle(c, TRUE)

\* Lines 63-70 with a peer that has stopped reading: next_outgoing has run,
\* and the task is suspended in write_all inside the if-let whose scrutinee
\* holds the guard of the State lock.
SuspendInOutgoing(c) ==
    /\ pc[c] = "out"
    /\ stalled[c]
    /\ LET o == NextOutgoing(role, handshake_state, send_rdb, config_port) IN
         /\ o.msg.type \notin {"None", "Panic"}
         /\ handshake_state' = o.handshake_state
         /\ send_rdb' = o.send_rdb
    /\ pc' = [pc EXCEPT ![c] = "out_write"]
    /\ lock' = c
    /\ UNCHANGED <<role, config, store, now, ty, input, message, reciever,
                   written, replica_senders, mailbox, enqueued, accepted, nreads,
                   handled, last_set, stream, accepted_bytes, received_bytes,
                   offset, resp, snapshot, stalled>>

\* The peer of connection c stops reading from its socket.
PeerStalls(c) ==
    /\ ~stalled[c]
    /\ ~Stopped(c)
    /\ stalled' = [stalled EXCEPT ![c] = TRUE]
    /\ UNCHANGED <<role, config, store, handshake_state, send_rdb, now, ty, pc,
                   input, message, reciever, written, replica_senders, mailbox,
                   enqueued, accepted, handled, last_set, nreads, stream,
                   accepted_bytes, received_bytes, offset, resp, snapshot, lock>>

\* The -ERR replies written to a connection.
Errors(c) == Len(SelectSeq(written[c], LAMBDA m : m.type = "SimpleError"))

\* Lines 95-97 and 146-154: Message::deserialize returns Err; the error is
\* written as a simple error, and input is not advanced: the while loop
\* comes back to the same bytes.
DeserializeError(c) ==
    /\ pc[c] = "dispatch"
    /\ input[c] # <<>>
    /\ ~DeserializePanics(input[c])
    /\ Deserialize(Head(input[c])).type = "Err"
    /\ Errors(c) < MaxErrorReplies
    /\ written' = Write(c, Msg("SimpleError"))
    /\ UNCHANGED <<role, config, store, handshake_state, send_rdb, now, ty,
                   pc, input, message, reciever, replica_senders, mailbox,
                   enqueued, accepted, nreads, handled, last_set,
                   stream, accepted_bytes, received_bytes, offset, resp, snapshot,
                   lock, stalled>>

\* Lines 95-97: RespValue::deserialize panics on the bytes (its slice of the
\* two bytes after a bulk payload is out of range), and the task with it.
DeserializePanic(c) ==
    /\ pc[c] = "dispatch"
    /\ input[c] # <<>>
    /\ DeserializePanics(input[c])
    /\ pc' = [pc EXCEPT ![c] = "panicked"]
    /\ UNCHANGED <<role, config, store, handshake_state, send_rdb, now, ty,
                   input, message, reciever, written, replica_senders, mailbox,
                   enqueued, accepted, nreads, handled, last_set,
                   stream, accepted_bytes, received_bytes, offset, resp, snapshot,
                   lock, stalled>>

\* Lines 126-133: a connection of kind Slave without a receiver creates its
\* channel and pushes the sender.
Register(c) ==
    /\ pc[c] = "reg"
    /\ reciever' = [reciever EXCEPT ![c] = TRUE]
    /\ replica_senders' = Append(replica_senders, c)
    /\ pc' = [pc EXCEPT ![c] = Continue(input[c])]
    /\ message' = [message EXCEPT ![c] = NoMessage]
    /\ UNCHANGED <<role, config, store, handshake_state, send_rdb, now, ty,
                   input, written, mailbox, enqueued, accepted, nreads,
                   handled, last_set,
                   stream, accepted_bytes, received_bytes, offset, resp, snapshot,
                   lock, stalled>>

\* The senders the for loop of lines 139-143 reaches: every one before the
\* first whose receiver is dropped (send fails there and expect panics).
RECURSIVE Reached(_)
Reached(senders) ==
    IF senders = <<>> \/ Stopped(Head(senders)) THEN {}
    ELSE {Head(senders)} \cup Reached(Tail(senders))

SendFails(senders) == \E i \in DOMAIN senders : Stopped(senders[i])

\* UnboundedSender::send to every sender reached.
SendAll(q, senders, m) ==
    [r \in DOMAIN q |-> IF r \in Reached(senders) THEN Append(q[r], m) ELSE q[r]]

\* Lines 135-144: the fan-out of a write command read from a Client.
Fanout(c) ==
    /\ pc[c] = "fan"
    /\ mailbox' = SendAll(mailbox, replica_senders, message[c])
    /\ enqueued' = SendAll(enqueued, replica_senders, message[c])
    /\ pc' = [pc EXCEPT ![c] = IF SendFails(replica_senders) THEN "panicked"
                               ELSE Continue(input[c])]
    /\ message' = IF SendFails(replica_senders) THEN message
                  ELSE [message EXCEPT ![c] = NoMessage]
    /\ UNCHANGED <<role, config, store, handshake_state, send_rdb, now, ty,
                   input, reciever, written, replica_senders, accepted,
                   nreads,
                   handled, last_set,
                   stream, accepted_bytes, received_bytes, offset, resp, snapshot,
                   lock, stalled>>

\* The monotonic clock advances.
Tick ==
    /\ now < MaxTime
    /\ now' = now + 1
    /\ UNCHANGED <<role, config, store, handshake_state, send_rdb, ty, pc,
                   input, message, reciever, written, replica_senders, mailbox,
                   enqueued, accepted, nreads,
                   handled, last_set,
                   stream, accepted_bytes, received_bytes, offset, resp, snapshot,
                   lock, stalled>>

----------------------------------------------------------------------------
(* The RESP codec of resp_value.rs on byte strings. A byte string is a     *)
(* sequence of one-character strings; indexes are the code's (from 0).     *)
CR == "\r"
LF == "\n"
TERMINATOR == <<CR, LF>>

Digits == {"0", "1", "2", "3", "4", "5", "6", "7", "8", "9"}

DigitVal(c) ==
    CASE c = "0" -> 0 [] c = "1" -> 1 [] c = "2" -> 2 [] c = "3" -> 3
      [] c = "4" -> 4 [] c = "5" -> 5 [] c = "6" -> 6 [] c = "7" -> 7
      [] c = "8" -> 8 [] c = "9" -> 9

DigitChar(d) ==
    CASE d = 0 -> "0" [] d = 1 -> "1" [] d = 2 -> "2" [] d = 3 -> "3"
      [] d = 4 -> "4" [] d = 5 -> "5" [] d = 6 -> "6" [] d = 7 -> "7"
      [] d = 8 -> "8" [] d = 9 -> "9"

IsDigits(s) == s # <<>> /\ \A i \in 1..Len(s) : s[i] \in Digits

RECURSIVE DigitsValue(_)
DigitsValue(s) ==
    IF s = <<>> THEN 0
    ELSE 10 * DigitsValue(SubSeq(s, 1, Len(s) - 1)) + DigitVal(s[Len(s)])

\* str::parse::<i64>: an optional sign and at least one digit. The inputs are
\* short, so the value never leaves the range of i64.
ParseI64(s) ==
    IF s # <<>> /\ s[1] \in {"+", "-"}
    THEN IF IsDigits(Tail(s))
         THEN [ok |-> TRUE,
               n |-> IF s[1] = "-" THEN 0 - DigitsValue(Tail(s))
                                   ELSE DigitsValue(Tail(s))]
         ELSE [ok |-> FALSE, n |-> 0]
    ELSE IF IsDigits(s) THEN [ok |-> TRUE, n |-> DigitsValue(s)]
         ELSE [ok |-> FALSE, n |-> 0]

\* str::parse::<usize>: an optional '+' and at least one digit; '-' is refused.
ParseUsize(s) ==
    IF s # <<>> /\ s[1] = "+"
    THEN IF IsDigits(Tail(s)) THEN [ok |-> TRUE, n |-> DigitsValue(Tail(s))]
         ELSE [ok |-> FALSE, n |-> 0]
    ELSE IF IsDigits(s) THEN [ok |-> TRUE, n |-> DigitsValue(s)]
         ELSE [ok |-> FALSE, n |-> 0]

\* to_string of an integer: no '+', no leading zero.
RECURSIVE IntToString(_)
IntToString(n) ==
    IF n < 0 THEN <<"-">> \o IntToString(0 - n)
    ELSE IF n < 10 THEN <<DigitChar(n)>>
    ELSE IntToString(n \div 10) \o <<DigitChar(n % 10)>>

\* data[a..b] and data[a..] of the code.
Slice(data, a, b) == SubSeq(data, a + 1, b)
SliceFrom(data, a) == SubSeq(data, a + 1, Len(data))

\* The index of the first "\r\n", or -1 for None.
FindTerminator(data) ==
    LET hits == {i \in 0..(Len(data) - 2) : Slice(data, i, i + 2) = TERMINATOR}
    IN  IF hits = {} THEN 0 - 1
        ELSE CHOOSE i \in hits : \A j \in hits : i <= j

\* A RespValue: the variant and what it carries.
RespV(variant) ==
    [variant |-> variant, n |-> 0, s |-> <<>>, b |-> FALSE, elements |-> <<>>]

\* What deserialize gives: Ok((value, rest)), Err with the text of its
\* anyhow error, or a panic. canon records whether every number read on the
\* way was written as to_string writes it.
RespOk(v, rest, canon) ==
    [kind |-> "Ok", value |-> v, rest |-> rest, canon |-> canon, error |-> ""]
RespErr(text) ==
    [kind |-> "Err", value |-> RespV("None"), rest |-> <<>>, canon |-> TRUE,
     error |-> text]
RespPanic ==
    [kind |-> "Panic", value |-> RespV("None"), rest |-> <<>>, canon |-> TRUE,
     error |-> ""]

\* The codec at rest: bytes to parse, what they parsed to, what that
\* serialized to.
NoResp == [phase |-> "idle", data |-> <<>>,
           result |-> [kind |-> "None", value |-> RespV("None"), rest |-> <<>>,
                       canon |-> TRUE, error |-> ""],
           out |-> <<>>]

\* The digit check of the big-number arm.
BigNumberDigits(s) ==
    \A i \in 1..Len(s) :
        IF i = 1 THEN s[i] \in Digits \cup {"-", "+"} ELSE s[i] \in Digits

RECURSIVE RespDeserialize(_), DeserializeElements(_, _)
\* The loop of the array arm: num_elements values, one after the other.
DeserializeElements(rest, num_elements) ==
    IF num_elements = 0
    THEN RespOk([RespV("Array") EXCEPT !.elements = <<>>], rest, TRUE)
    ELSE LET result == RespDeserialize(rest)
         IN  IF result.kind # "Ok" THEN result
             ELSE LET more == DeserializeElements(result.rest, num_elements - 1)
                  IN  IF more.kind # "Ok" THEN more
                      ELSE RespOk([more.value EXCEPT
                                       !.elements = <<result.value>> \o @],
                                  more.rest, result.canon /\ more.canon)

\* RespValue::deserialize. The double tag ',' occurs in no input enumerated
\* here and has no arm.
RespDeserialize(data) ==
    IF data = <<>> THEN RespPanic
    ELSE
    LET terminator_index == FindTerminator(data)
        found == terminator_index # 0 - 1
        line == Slice(data, 1, terminator_index)
        after == SliceFrom(data, terminator_index + 2)
        tag == data[1]
    IN  CASE tag = "+" ->
              IF found THEN RespOk([RespV("SimpleString") EXCEPT !.s = line], after, TRUE)
              ELSE RespErr("unterminated simple string")
          [] tag = "-" ->
              IF found THEN RespOk([RespV("SimpleError") EXCEPT !.s = line], after, TRUE)
              ELSE RespErr("unterminated simple error")
          [] tag = ":" ->
              IF ~found THEN RespErr("unterminated integer")
              ELSE IF ParseI64(line).ok
              THEN RespOk([RespV("Integer") EXCEPT !.n = ParseI64(line).n], after,
                          line = IntToString(ParseI64(line).n))
              ELSE RespErr("invalid integer")
          [] tag = "$" ->
              IF ~found THEN RespErr("invalid bulk string/raw bytes")
              ELSE IF ParseUsize(line).ok
              THEN LET data_len == ParseUsize(line).n
                       start == terminator_index + 2
                       canon == line = IntToString(data_len)
                   IN  IF start + data_len + 2 > Len(data) THEN RespPanic
                       ELSE IF Slice(data, start + data_len, start + data_len + 2)
                                   # TERMINATOR
                       THEN RespOk([RespV("RawBytes") EXCEPT
                                        !.s = Slice(data, start, start + data_len)],
                                   SliceFrom(data, start + data_len), canon)
                       ELSE RespOk([RespV("BulkString") EXCEPT
                                        !.s = Slice(data, start, start + data_len)],
                                   SliceFrom(data, start + data_len + 2), canon)
              ELSE IF line = <<"-", "1">>
              THEN RespOk(RespV("NullBulkString"), after, TRUE)
              ELSE RespErr("invalid bulk string/raw bytes")
          [] tag = "*" ->
              IF ~found THEN RespErr("unterminated array")
              ELSE IF ParseUsize(line).ok
              THEN LET elements == DeserializeElements(after, ParseUsize(line).n)
                   IN  IF elements.kind # "Ok" THEN elements
                       ELSE RespOk(elements.value, elements.rest,
                                   elements.canon
                                     /\ line = IntToString(ParseUsize(line).n))
              ELSE IF line = <<"-", "1">>
              THEN RespOk(RespV("NullArray"), after, TRUE)
              ELSE RespErr("invalid array")
          [] tag = "_" ->
              IF ~found THEN RespErr("unterminated null")
              ELSE IF terminator_index = 1
              THEN RespOk(RespV("Null"), SliceFrom(data, 3), TRUE)
              ELSE RespErr("non-empty null")
          [] tag = "#" ->
              IF ~found THEN RespErr("unterminated boolean")
              ELSE IF terminator_index = 2 /\ data[2] \in {"t", "f"}
              THEN RespOk([RespV("Boolean") EXCEPT !.b = (data[2] = "t")],
                          SliceFrom(data, 4), TRUE)
              ELSE RespErr("invalid boolean")
          [] tag = "(" ->
              IF ~found THEN RespErr("unterminated big number")
              ELSE IF BigNumberDigits(line)
              THEN RespOk([RespV("BigNumber") EXCEPT !.s = line], after, TRUE)
              ELSE RespErr("invalid big number")
          [] tag \in {"!", "=", "%", "~", ">"} -> RespPanic
          [] OTHER -> RespErr("invalid RESP tag")

RespTag(v) ==
    CASE v.variant = "SimpleString" -> "+"
      [] v.variant = "SimpleError" -> "-"
      [] v.variant = "Integer" -> ":"
      [] v.variant \in {"BulkString", "NullBulkString", "RawBytes"} -> "$"
      [] v.variant \in {"Array", "NullArray"} -> "*"
      [] v.variant = "Null" -> "_"
      [] v.variant = "Boolean" -> "#"
      [] v.variant = "BigNumber" -> "("

\* A mutant of HasFinalTerminator: every value ends with "\r\n".
HasFinalTerminatorAlways(v) == TRUE

HasFinalTerminator(v) == v.variant \notin {"RawBytes", "Array"}

RECURSIVE RespSerialize(_), SerializeElements(_)
\* The loop of the array arm: every element in order.
SerializeElements(elements) ==
    IF elements = <<>> THEN <<>>
    ELSE RespSerialize(Head(elements)) \o SerializeElements(Tail(elements))

\* RespValue::serialize.
RespSerialize(v) ==
    <<RespTag(v)>>
    \o (CASE v.variant \in {"SimpleString", "SimpleError", "BigNumber"} -> v.s
          [] v.variant = "Integer" -> IntToString(v.n)
          [] v.variant \in {"BulkString", "RawBytes"} ->
                IntToString(Len(v.s)) \o TERMINATOR \o v.s
          [] v.variant \in {"NullBulkString", "NullArray"} -> <<"-", "1">>
          [] v.variant = "Array" ->
                IntToString(Len(v.elements)) \o TERMINATOR
                \o SerializeElements(v.elements)
          [] v.variant = "Null" -> <<>>
          [] v.variant = "Boolean" -> IF v.b THEN <<"t">> ELSE <<"f">>)
    \o (IF HasFinalTerminator(v) THEN TERMINATOR ELSE <<>>)

\* Pieces the enumerated byte strings are put together from: whole values in
\* their usual and in other accepted spellings, a length-prefixed payload
\* without "\r\n", array headers, and a line that is no value.
RespPieces ==
    {<<":", "5", CR, LF>>, <<":", "+", "5", CR, LF>>,
     <<"+", "O", "K", CR, LF>>, <<"-", "E", CR, LF>>,
     <<"$", "1", CR, LF, "a", CR, LF>>, <<"$", "0", "1", CR, LF, "a", CR, LF>>,
     <<"$", "1", CR, LF, "a">>, <<"$", "-", "1", CR, LF>>,
     <<"*", "1", CR, LF>>, <<"*", "2", CR, LF>>, <<"*", "0", CR, LF>>,
     <<"*", "-", "1", CR, LF>>,
     <<"_", CR, LF>>, <<"#", "t", CR, LF>>, <<"#", "x", CR, LF>>,
     <<"(", "1", "2", CR, LF>>}

RECURSIVE Joined(_)
Joined(n) ==
    IF n = 0 THEN {<<>>}
    ELSE {p \o q : p \in RespPieces, q \in Joined(n - 1)}

RespInputs == UNION {Joined(n) : n \in 1..MaxPieces}

----------------------------------------------------------------------------
(* The snapshot reader (rdb.rs).  A snapshot is a sequence of bytes, each  *)
(* a number in 0..255; indexes are the code's (from 0).                    *)

\* u16::from_be_bytes, u32::from_be_bytes, u32::from_le_bytes and
\* u64::from_le_bytes.
U16Be(b) == b[1] * 256 + b[2]
U32Be(b) == ((b[1] * 256 + b[2]) * 256 + b[3]) * 256 + b[4]
U32Le(b) == ((b[4] * 256 + b[3]) * 256 + b[2]) * 256 + b[1]
RECURSIVE U64Le(_)
U64Le(b) == IF b = <<>> THEN 0 ELSE b[1] + 256 * U64Le(Tail(b))

\* The character of an ASCII byte, for the bytes the snapshots here hold.
CharOf(b) ==
    CASE b \in 48..57 -> DigitChar(b - 48)
      [] b = 43 -> "+"
      [] b = 97 -> "a" [] b = 98 -> "b"
      [] b = 106 -> "j" [] b = 107 -> "k"
      [] b = 82 -> "R" [] b = 69 -> "E" [] b = 68 -> "D"
      [] b = 73 -> "I" [] b = 83 -> "S"
      [] OTHER -> "?"

\* std::str::from_utf8(..).to_string() of bytes below 128.
RECURSIVE Utf8(_)
Utf8(b) == IF b = <<>> THEN "" ELSE CharOf(b[1]) \o Utf8(Tail(b))

\* The characters of bytes below 128, one by one.
Chars(b) == [i \in 1..Len(b) |-> CharOf(b[i])]

\* from_utf8 fails on a byte that is not ASCII (the snapshots here hold no
\* multi-byte sequence).
IsUtf8(b) == \A i \in 1..Len(b) : b[i] < 128

\* to_string of an unsigned integer.
RECURSIVE Decimal(_)
Decimal(n) ==
    IF n < 10 THEN DigitChar(n) ELSE Decimal(n \div 10) \o DigitChar(n % 10)

\* What parse_length_encoding and parse_string give.
LengthOk(special, len, read) ==
    [kind |-> "Ok", special |-> special, len |-> len, read |-> read]
LengthFail(kind) == [kind |-> kind, special |-> FALSE, len |-> 0, read |-> 0]
StringOk(string, read) == [kind |-> "Ok", string |-> string, read |-> read]
StringFail(kind) == [kind |-> kind, string |-> "", read |-> 0]

\* parse_length_encoding: Length(len) or Special(Integer(len)), and the
\* bytes read.
ParseLengthEncoding(data) ==
    IF data = <<>> THEN LengthFail("Panic")
    ELSE LET top == data[1] \div 64
             low == data[1] % 64
         IN  CASE top = 0 -> LengthOk(FALSE, low, 1)
               [] top = 1 ->
                    IF Len(data) < 2 THEN LengthFail("Panic")
                    ELSE LengthOk(FALSE, U16Be(<<low, data[2]>>), 2)
               [] top = 2 ->
                    IF Len(data) < 5 THEN LengthFail("Panic")
                    ELSE LengthOk(FALSE, U32Be(Slice(data, 1, 5)), 5)
               [] OTHER ->
                    CASE low = 0 -> LengthOk(TRUE, 1, 1)
                      [] low = 1 -> LengthOk(TRUE, 2, 1)
                      [] low = 2 -> LengthOk(TRUE, 4, 1)
                      [] low = 3 -> LengthFail("Panic")
                      [] OTHER -> LengthFail("Err")

\* parse_string: the string and the bytes read.
ParseString(data) ==
    LET e == ParseLengthEncoding(data)
        rest == SliceFrom(data, e.read)
    IN  IF e.kind # "Ok" THEN StringFail(e.kind)
        ELSE IF Len(rest) < e.len THEN StringFail("Panic")
        ELSE IF e.special
        THEN StringOk(CASE e.len = 1 -> Decimal(rest[1])
                        [] e.len = 2 -> Decimal(U16Be(Slice(rest, 0, 2)))
                        [] e.len = 4 -> Decimal(U32Be(Slice(rest, 0, 4))),
                      e.read + e.len)
        ELSE IF IsUtf8(Slice(rest, 0, e.len))
        THEN StringOk(Utf8(Slice(rest, 0, e.len)), e.read + e.len)
        ELSE StringFail("Err")

\* ValueType::try_from.
ValueTypes == {0, 1, 2, 3, 4, 9, 10, 11, 12, 13, 14}

\* What decode_rdb gives: Ok(store), Err, or a panic.
RdbOk(st) == [kind |-> "Ok", store |-> st]
RdbFail(kind) == [kind |-> kind, store |-> << >>]

\* How many bytes of rest the opcode at its head takes before the value
\* type of an entry (0 for an entry without expiry).
ExpiryBytes(op) == CASE op = 253 -> 5 [] op = 252 -> 9 [] OTHER -> 0

\* The expiry an opcode gives to the entry behind it.
ExpiryOf(op, rest) ==
    CASE op = 253 -> UnixTimestampMillis(U32Le(Slice(rest, 1, 5)) * 1000)
      [] op = 252 -> UnixTimestampMillis(U64Le(Slice(rest, 1, 9)))
      [] OTHER -> None

RECURSIVE DecodeLoop(_, _)
\* The while loop of decode_rdb over the bytes behind the version.
DecodeLoop(rest, st) ==
    IF rest = <<>> THEN RdbOk(st)
    ELSE LET op == rest[1] IN
         CASE op = 255 -> IF Len(rest) < 9 THEN RdbFail("Panic") ELSE RdbOk(st)
           [] op = 254 -> IF Len(rest) < 2 THEN RdbFail("Panic")
                          ELSE DecodeLoop(SliceFrom(rest, 2), st)
           [] op = 251 -> IF Len(rest) < 3 THEN RdbFail("Panic")
                          ELSE DecodeLoop(SliceFrom(rest, 3), st)
           [] op = 250 ->
                LET k == ParseString(SliceFrom(rest, 1))
                    v == ParseString(SliceFrom(rest, 1 + k.read))
                IN  IF k.kind # "Ok" THEN RdbFail(k.kind)
                    ELSE IF v.kind # "Ok" THEN RdbFail(v.kind)
                    ELSE DecodeLoop(SliceFrom(rest, 1 + k.read + v.read), st)
           [] OTHER ->
                LET skip == ExpiryBytes(op)
                    entry == SliceFrom(rest, skip)
                    k == ParseString(SliceFrom(entry, 1))
                    v == ParseString(SliceFrom(entry, 1 + k.read))
                IN  IF Len(rest) < skip \/ entry = <<>> THEN RdbFail("Panic")
                    ELSE IF entry[1] \notin ValueTypes THEN RdbFail("Err")
                    ELSE IF entry[1] # 0 THEN RdbFail("Panic")
                    ELSE IF k.kind # "Ok" THEN RdbFail(k.kind)
                    ELSE IF v.kind # "Ok" THEN RdbFail(v.kind)
                    ELSE DecodeLoop(
                            SliceFrom(entry, 1 + k.read + v.read),
                            Insert(st, k.string,
                                   [data |-> v.string, updated |-> 0,
                                    expiry |-> ExpiryOf(op, rest)]))

\* The bytes of "REDIS".
MAGIC == <<82, 69, 68, 73, 83>>

\* A decode_rdb that does not look at the magic string.
DecodeRdbAnyMagic(data) ==
    IF Len(data) < 18 THEN RdbFail("Err")
    ELSE IF ~IsUtf8(Slice(data, 5, 9)) \/ ~ParseUsize(Chars(Slice(data, 5, 9))).ok
    THEN RdbFail("Err")
    ELSE DecodeLoop(SliceFrom(data, 9), << >>)

\* decode_rdb.
DecodeRdb(data) ==
    IF Len(data) < 18 THEN RdbFail("Err")
    ELSE IF Slice(data, 0, 5) # MAGIC THEN RdbFail("Err")
    ELSE IF ~IsUtf8(Slice(data, 5, 9)) \/ ~ParseUsize(Chars(Slice(data, 5, 9))).ok
    THEN RdbFail("Err")
    ELSE DecodeLoop(SliceFrom(data, 9), << >>)

\* No snapshot file: State::new starts from Store::default().
NoRdb == [phase |-> "none", data |-> <<>>, result |-> RdbFail("None")]

----------------------------------------------------------------------------
(* The state after State::new and main, for a set of accepted connections. *)

\* The Config of a server of role r whose --port values are port (<<>>
\* without --port): a slave was given --replicaof.
ConfigFor(r, port) ==
    LET ports == IF port = <<>> THEN << >> ELSE ConfigInsert(<< >>, "Port", port)
    IN  IF r = "slave"
        THEN ConfigInsert(ports, "ReplicaOf", <<"localhost", "6379">>)
        ELSE ports

\* The state after State::new and main for the Config cfg.
InitState(cfg, kinds) ==
    /\ config = cfg
    /\ role = RoleOf(config)
    /\ store = << >>
    /\ handshake_state = "Init"
    /\ send_rdb = FALSE
    /\ now = 0
    /\ ty = kinds
    /\ pc = [c \in DOMAIN kinds |-> "out"]
    /\ input = [c \in DOMAIN kinds |-> <<>>]
    /\ message = [c \in DOMAIN kinds |-> NoMessage]
    /\ reciever = [c \in DOMAIN kinds |-> FALSE]
    /\ written = [c \in DOMAIN kinds |-> <<>>]
    /\ replica_senders = <<>>
    /\ mailbox = [c \in DOMAIN kinds |-> <<>>]
    /\ enqueued = [c \in DOMAIN kinds |-> <<>>]
    /\ accepted = 0
    /\ handled = [c \in DOMAIN kinds |-> <<>>]
    /\ last_set = << >>
    /\ nreads = 0
    /\ stream = [c \in DOMAIN kinds |-> NoStream]
    /\ accepted_bytes = 0
    /\ received_bytes = 0
    /\ offset = 0
    /\ lock = 0
    /\ stalled = [c \in DOMAIN kinds |-> FALSE]

InitServer(r, port, kinds) == InitState(ConfigFor(r, port), kinds)

InitWith(r, port, kinds) ==
    /\ InitServer(r, port, kinds)
    /\ resp = NoResp
    /\ snapshot = NoRdb

(* A master with three accepted connections.  Connection 1 sends SET and   *)
(* GET, connection 2 SET or PSYNC ? -1, connection 3 PSYNC ? -1; any       *)
(* socket may fail.                                                         *)
ReplFrames(c) ==
    CASE c = 1 -> {[Frame("SET") EXCEPT !.key = "k", !.value = "a"],
                   [Frame("GET") EXCEPT !.key = "k"]}
      [] c = 2 -> {[Frame("SET") EXCEPT !.key = "k", !.value = "b"],
                   [Frame("PSYNC") EXCEPT !.replication_id = "?", !.offset = -1]}
      [] OTHER -> {[Frame("PSYNC") EXCEPT !.replication_id = "?", !.offset = -1]}

Init == InitWith("master", <<>>, [c \in 1..3 |-> "Client"])

Next ==
    \/ \E c \in Conns : PollOutgoing(c)
    \/ \E c \in Conns : TryRecv(c)
    \/ \E c \in Conns : ReadNothing(c)
    \/ \E c \in Conns : \E f \in ReplFrames(c) : ReadBytes(c, f, MaxReads)
    \/ \E c \in Conns : ReadError(c)
    \/ \E c \in Conns : Dispatch(c)
    \/ \E c \in Conns : Register(c)
    \/ \E c \in Conns : Fanout(c)

Spec == Init /\ [][Next]_vars

----------------------------------------------------------------------------
(* A slave with its outbound connection to the master (1, kind Master) and *)
(* one accepted connection (2, kind Client), with and without --port.  The *)
(* master's socket delivers replies, the snapshot and propagated SETs; the *)
(* client's socket delivers GET and a reply-shaped +PONG.                  *)
SlaveFrames(c) ==
    IF c = 1
    THEN {Frame("+PONG"), Frame("+OK"), Frame("$RAW"),
          [Frame("+FULLRESYNC") EXCEPT !.replication_id = REPLICATION_ID],
          [Frame("SET") EXCEPT !.key = "k", !.value = "a"]}
    ELSE {Frame("+PONG"), [Frame("GET") EXCEPT !.key = "k"]}

\* What one read of the master's socket may hold at the end of a handshake:
\* the FULLRESYNC line with the snapshot, and with a propagated SET behind.
SlavePipelines(c) ==
    IF c = 1
    THEN {<<[Frame("+FULLRESYNC") EXCEPT !.replication_id = REPLICATION_ID],
            Frame("$RAW")>>,
          <<[Frame("+FULLRESYNC") EXCEPT !.replication_id = REPLICATION_ID],
            Frame("$RAW"),
            [Frame("SET") EXCEPT !.key = "k", !.value = "a"]>>}
    ELSE {}

InitSlave ==
    \E port \in {<<>>, <<"6380">>} :
        InitWith("slave", port, <<"Master", "Client">>)

NextSlave ==
    \/ \E c \in Conns : PollOutgoing(c)
    \/ \E c \in Conns : ReadNothing(c)
    \/ \E c \in Conns : \E f \in SlaveFrames(c) : ReadBytes(c, f, MaxSlaveReads)
    \/ \E c \in Conns : \E fs \in SlavePipelines(c) : ReadPipelined(c, fs, MaxSlaveReads)
    \/ \E c \in Conns : Dispatch(c)
    \/ \E c \in Conns : DeserializePanic(c)

SpecSlave == InitSlave /\ [][NextSlave]_vars

----------------------------------------------------------------------------
(* A master with one client that sends SET (with and without PX, and with  *)
(* a PX argument that does not parse) and GET over two keys, while the     *)
(* clock advances.                                                         *)
StoreFrames ==
    {[Frame("SET") EXCEPT !.key = "k", !.value = v, !.opt = o[1], !.ms = o[2]] :
        v \in Values, o \in {<<"", 0>>, <<"PX", 1>>, <<"px", 2>>, <<"PX", -1>>}}
    \cup {[Frame("SET") EXCEPT !.key = "j", !.value = "a", !.opt = "PX", !.ms = 1]}
    \cup {[Frame("GET") EXCEPT !.key = k] : k \in Keys}

InitStore == InitWith("master", <<>>, <<"Client">>)

NextStore ==
    \/ \E c \in Conns : PollOutgoing(c)
    \/ \E c \in Conns : ReadNothing(c)
    \/ \E c \in Conns : \E f \in StoreFrames : ReadBytes(c, f, MaxStoreReads)
    \/ \E c \in Conns : Dispatch(c)
    \/ \E c \in Conns : Fanout(c)
    \/ Tick

SpecStore == InitStore /\ [][NextStore]_vars

----------------------------------------------------------------------------
(* A master with two clients that send PING, commands the State core has   *)
(* no arm for (ECHO, WAIT), a frame that is no command, and the first part *)
(* of a frame cut in a length line or in a payload, and that close their   *)
(* connection.                                                             *)
ClientFrames ==
    {Frame("PING"), [Frame("ECHO") EXCEPT !.value = "hi"], Frame("WAIT"),
     Frame("FOO"),
     [Frame("PART") EXCEPT !.key = "header"],
     [Frame("PART") EXCEPT !.key = "payload"]}

InitClient == InitWith("master", <<>>, <<"Client", "Client">>)

NextClient ==
    \/ \E c \in Conns : PollOutgoing(c)
    \/ \E c \in Conns : ReadNothing(c)
    \/ \E c \in Conns : ReadEof(c)
    \/ \E c \in Conns : \E f \in ClientFrames : ReadBytes(c, f, MaxClientReads)
    \/ \E c \in Conns : Dispatch(c)
    \/ \E c \in Conns : DeserializeError(c)
    \/ \E c \in Conns : DeserializePanic(c)

SpecClient == InitClient /\ [][NextClient]_vars

----------------------------------------------------------------------------
(* A master with two clients served concurrently: connection 1 pipelines   *)
(* requests (several frames in one read), connection 2 sends single ones.  *)
PipeFrames(c) ==
    IF c = 1
    THEN {[Frame("GET") EXCEPT !.key = "k"]}
    ELSE {[Frame("SET") EXCEPT !.key = "k", !.value = "b"], Frame("PING")}

PipePipelines(c) ==
    IF c = 1
    THEN {<<[Frame("SET") EXCEPT !.key = "k", !.value = "a"],
            [Frame("GET") EXCEPT !.key = "k"]>>,
          <<[Frame("GET") EXCEPT !.key = "k"], Frame("PING"),
            [Frame("SET") EXCEPT !.key = "k", !.value = "a"]>>}
    ELSE {}

InitPipe == InitWith("master", <<>>, <<"Client", "Client">>)

NextPipe ==
    \/ \E c \in Conns : PollOutgoing(c)
    \/ \E c \in Conns : ReadNothing(c)
    \/ \E c \in Conns : \E f \in PipeFrames(c) : ReadBytes(c, f, MaxPipeReads)
    \/ \E c \in Conns : \E fs \in PipePipelines(c) : ReadPipelined(c, fs, MaxPipeReads)
    \/ \E c \in Conns : Dispatch(c)
    \/ \E c \in Conns : Fanout(c)

SpecPipe == InitPipe /\ [][NextPipe]_vars

----------------------------------------------------------------------------
(* A server started with a command line: what Config::parse and State::new *)
(* make of it, and a client that asks for the configuration and the role.  *)
(* A slave has its connection to the master and a client, a master two     *)
(* clients.                                                                *)
ArgGroups ==
    {<<"--port", "6380">>, <<"--PORT", "6380">>, <<"--dir", "/tmp">>,
     <<"--dbfilename", "f.rdb">>, <<"--replicaof", "localhost", "6379">>,
     <<"--foo", "bar">>, <<"bar">>}

RECURSIVE ArgLists(_)
ArgLists(n) ==
    IF n = 0 THEN {<<>>}
    ELSE ArgLists(n - 1) \cup {g \o a : g \in ArgGroups, a \in ArgLists(n - 1)}

ConfigFrames(c) ==
    IF c = 2
    THEN {[Frame("CONFIG GET") EXCEPT !.key = p] :
              p \in {"dir", "port", "PORT", "replicaof", "foo", "zzz"}}
         \cup {[Frame("INFO") EXCEPT !.sections = ss] :
                  ss \in {<<>>, <<"replication">>, <<"server">>,
                          <<"server", "replication">>}}
         \cup {Frame("PING")}
    ELSE {}

\* main returns with the error of Config::parse: no server then.
InitConfig ==
    \E args \in ArgLists(MaxFlags) :
        /\ ConfigParse(args).ok
        /\ InitState(ConfigParse(args).config,
                     IF RoleOf(ConfigParse(args).config) = "slave"
                     THEN <<"Master", "Client">> ELSE <<"Client", "Client">>)
        /\ resp = NoResp
        /\ snapshot = NoRdb

NextConfig ==
    \/ \E c \in Conns : PollOutgoing(c)
    \/ \E c \in Conns : ReadNothing(c)
    \/ \E c \in Conns : \E f \in ConfigFrames(c) : ReadBytes(c, f, MaxConfigReads)
    \/ \E c \in Conns : Dispatch(c)

SpecConfig == InitConfig /\ [][NextConfig]_vars

----------------------------------------------------------------------------
(* A master with two accepted connections whose peers may stop reading.   *)
(* Connection 1 sends PING and SET, connection 2 PSYNC ? -1 and PING.  A   *)
(* step that takes the State lock waits while a suspended task holds it,   *)
(* and a write to a peer that has stopped reading does not complete.       *)
LockFrames(c) ==
    IF c = 1
    THEN {Frame("PING"), [Frame("SET") EXCEPT !.key = "k", !.value = "a"]}
    ELSE {[Frame("PSYNC") EXCEPT !.replication_id = "?", !.offset = -1],
          Frame("PING")}

\* next_outgoing has a message for whoever polls it.
WritesOutgoing ==
    NextOutgoing(role, handshake_state, send_rdb, config_port).msg.type
        \notin {"None", "Panic"}

InitLock == InitWith("master", <<>>, <<"Client", "Client">>)

NextLock ==
    \/ \E c \in Conns :
          lock = 0 /\ (stalled[c] => ~WritesOutgoing) /\ PollOutgoing(c)
    \/ \E c \in Conns : (stalled[c] => mailbox[c] = <<>>) /\ TryRecv(c)
    \/ \E c \in Conns :
          lock = 0 /\ (stalled[c] => ~WritesOutgoing) /\ ReadNothing(c)
    \/ \E c \in Conns : \E f \in LockFrames(c) : ReadBytes(c, f, MaxLockReads)
    \/ \E c \in Conns : lock = 0 /\ ~stalled[c] /\ Dispatch(c)
    \/ \E c \in Conns : lock = 0 /\ Register(c)
    \/ \E c \in Conns : lock = 0 /\ Fanout(c)
    \/ \E c \in Conns : PeerStalls(c)
    \/ \E c \in Conns : lock = 0 /\ SuspendInReply(c)
    \/ \E c \in Conns : lock = 0 /\ SuspendInOutgoing(c)

SpecLock == InitLock /\ [][NextLock]_vars

----------------------------------------------------------------------------
(* A master whose connection tasks are scheduled fairly: connection 1 is   *)
(* a client that sends SETs, connection 2 sends PSYNC ? -1, and its socket *)
(* may fail.  Every task is spawned on the tokio runtime and its loop      *)
(* never waits (both timeouts are of zero length), so a task that has not  *)
(* ended keeps taking the steps of its loop; what a peer sends, and        *)
(* whether a socket fails, is up to the environment.                       *)
DrainFrames(c) ==
    IF c = 1 THEN {[Frame("SET") EXCEPT !.key = "k", !.value = "a"]}
    ELSE {[Frame("PSYNC") EXCEPT !.replication_id = "?", !.offset = -1]}

\* A step of the loop of connection c's task.
TaskStep(c) ==
    \/ PollOutgoing(c)
    \/ TryRecv(c)
    \/ ReadNothing(c)
    \/ Dispatch(c)
    \/ Register(c)
    \/ Fanout(c)

InitDrain == InitWith("master", <<>>, <<"Client", "Client">>)

NextDrain ==
    \/ \E c \in Conns : PollOutgoing(c)
    \/ \E c \in Conns : TryRecv(c)
    \/ \E c \in Conns : ReadNothing(c)
    \/ \E c \in Conns : \E f \in DrainFrames(c) : ReadBytes(c, f, MaxDrainReads)
    \/ \E c \in Conns : ReadError(c)
    \/ \E c \in Conns : Dispatch(c)
    \/ \E c \in Conns : Register(c)
    \/ \E c \in Conns : Fanout(c)

SpecDrain ==
    InitDrain /\ [][NextDrain]_vars /\ \A c \in 1..2 : WF_vars(TaskStep(c))

----------------------------------------------------------------------------
(* A master with two accepted connections: connection 1 is a client that   *)
(* sends SETs, connection 2 sends SETs and PSYNC ? -1 in any order.        *)
KindFrames(c) ==
    IF c = 1 THEN {[Frame("SET") EXCEPT !.key = "k", !.value = "a"]}
    ELSE {[Frame("SET") EXCEPT !.key = "k", !.value = "b"],
          [Frame("PSYNC") EXCEPT !.replication_id = "?", !.offset = -1]}

InitKind == InitWith("master", <<>>, <<"Client", "Client">>)

NextKind ==
    \/ \E c \in Conns : PollOutgoing(c)
    \/ \E c \in Conns : TryRecv(c)
    \/ \E c \in Conns : ReadNothing(c)
    \/ \E c \in Conns : \E f \in KindFrames(c) : ReadBytes(c, f, MaxKindReads)
    \/ \E c \in Conns : Dispatch(c)
    \/ \E c \in Conns : Register(c)
    \/ \E c \in Conns : Fanout(c)

SpecKind == InitKind /\ [][NextKind]_vars

----------------------------------------------------------------------------
(* A server of either role with two connections.  On a master both are     *)
(* accepted (kind Client); on a slave connection 1 is the outbound         *)
(* connection to the master (kind Master) and connection 2 is accepted.    *)
(* Either peer may send replies, INFO, SET and PSYNC ? -1.                 *)
RoleFrames(c) ==
    IF c = 1
    THEN {Frame("+PONG"), Frame("+OK"),
          [Frame("SET") EXCEPT !.key = "k", !.value = "a"],
          [Frame("PSYNC") EXCEPT !.replication_id = "?", !.offset = -1]}
    ELSE {Frame("INFO"),
          [Frame("SET") EXCEPT !.key = "k", !.value = "b"],
          [Frame("PSYNC") EXCEPT !.replication_id = "?", !.offset = -1]}

InitRoles ==
    \/ InitWith("master", <<>>, <<"Client", "Client">>)
    \/ InitWith("slave", <<"6380">>, <<"Master", "Client">>)

NextRoles ==
    \/ \E c \in Conns : PollOutgoing(c)
    \/ \E c \in Conns : TryRecv(c)
    \/ \E c \in Conns : ReadNothing(c)
    \/ \E c \in Conns : \E f \in RoleFrames(c) : ReadBytes(c, f, MaxRoleReads)
    \/ \E c \in Conns : Dispatch(c)
    \/ \E c \in Conns : Register(c)
    \/ \E c \in Conns : Fanout(c)

SpecRoles == InitRoles /\ [][NextRoles]_vars

----------------------------------------------------------------------------
(* The RESP codec on its own. *)
\* A byte string is parsed, and what it parsed to is serialized.
InitResp ==
    /\ InitServer("master", <<>>, <<"Client">>)
    /\ \E data \in RespInputs : resp = [NoResp EXCEPT !.data = data]
    /\ snapshot = NoRdb

ParseBytes ==
    /\ resp.phase = "idle"
    /\ resp' = [resp EXCEPT !.phase = "parsed",
                            !.result = RespDeserialize(resp.data)]
    /\ UNCHANGED server_vars

SerializeValue ==
    /\ resp.phase = "parsed"
    /\ resp.result.kind = "Ok"
    /\ resp' = [resp EXCEPT !.phase = "serialized",
                            !.out = RespSerialize(resp.result.value)]
    /\ UNCHANGED server_vars

NextResp ==
    \/ ParseBytes
    \/ SerializeValue

SpecResp == InitResp /\ [][NextResp]_vars

----------------------------------------------------------------------------
(* The RESP codec on frames that are cut short, that carry a reserved tag  *)
(* or whose body is at the edge of what an arm accepts.                    *)
EdgePieces ==
    {<<"$", "1", CR, LF, "a">>, <<"$", "1", CR, LF>>, <<"$", "1">>,
     <<"$", "x", CR, LF>>, <<"$", "1", CR, LF, "a", CR, LF>>,
     <<"+", "O">>, <<":", "5">>, <<":", "5", CR, LF>>, <<":", "q", CR, LF>>,
     <<"*", "2", CR, LF>>, <<"*", "1">>,
     <<"(", CR, LF>>, <<"(", "+", CR, LF>>, <<"(", "-", CR, LF>>,
     <<"(", "-", "1", CR, LF>>, <<"(", "1", "a", CR, LF>>, <<"(", "1">>,
     <<"!", "1", CR, LF>>, <<"=", "1", CR, LF>>, <<"%", "1", CR, LF>>,
     <<"~", "1", CR, LF>>, <<">", "1", CR, LF>>, <<"@", CR, LF>>}

RECURSIVE JoinedEdge(_)
JoinedEdge(n) ==
    IF n = 0 THEN {<<>>}
    ELSE {p \o q : p \in EdgePieces, q \in JoinedEdge(n - 1)}

EdgeInputs == UNION {JoinedEdge(n) : n \in 1..MaxEdgePieces}

InitEdge ==
    /\ InitServer("master", <<>>, <<"Client">>)
    /\ \E data \in EdgeInputs : resp = [NoResp EXCEPT !.data = data]
    /\ snapshot = NoRdb

SpecEdge == InitEdge /\ [][NextResp]_vars

----------------------------------------------------------------------------
(* State::new with --dir and --dbfilename of a file that exists: the file  *)
(* is read and decoded before any connection is accepted.  The snapshots   *)
(* are built from entries: a key of one character with a value that is a   *)
(* text of one character (int = 0) or an integer n encoded in int bytes,   *)
(* behind no expiry opcode (exp = "none"), ExpireTimeMillis ("ms") or      *)
(* ExpireTimeSecs ("sec") with the number t.                               *)
Entry(exp, t, key, int, value, n) ==
    [exp |-> exp, t |-> t, key |-> key, int |-> int, value |-> value, n |-> n]

\* The byte of a character (the inverse of CharOf on the letters used).
ByteOf(ch) ==
    CASE ch = "a" -> 97 [] ch = "b" -> 98 [] ch = "j" -> 106 [] ch = "k" -> 107

\* n in w bytes, the least significant first.
RECURSIVE LeBytes(_, _)
LeBytes(n, w) == IF w = 0 THEN <<>> ELSE <<n % 256>> \o LeBytes(n \div 256, w - 1)

\* A text of one character as a length-prefixed string.
EncodeText(s) == <<1, ByteOf(s)>>

\* An integer as an integer-encoded string of 1, 2 or 4 bytes.
EncodeInteger(n, w) ==
    <<192 + (CASE w = 1 -> 0 [] w = 2 -> 1 [] w = 4 -> 2)>> \o LeBytes(n, w)

EncodeEntry(e) ==
    (CASE e.exp = "ms" -> <<252>> \o LeBytes(e.t, 8)
       [] e.exp = "sec" -> <<253>> \o LeBytes(e.t, 4)
       [] OTHER -> <<>>)
    \o <<0>> \o EncodeText(e.key)
    \o (IF e.int = 0 THEN EncodeText(e.value) ELSE EncodeInteger(e.n, e.int))

RECURSIVE EncodeEntries(_)
EncodeEntries(es) ==
    IF es = <<>> THEN <<>> ELSE EncodeEntry(Head(es)) \o EncodeEntries(Tail(es))

\* "REDIS0003", and the same with a wrong magic string.
RdbHeader == MAGIC \o <<48, 48, 48, 51>>
BadHeader == <<82, 69, 68, 68, 73, 48, 48, 48, 51>>

\* An auxiliary field, a database selector and a resize opcode.
RdbPrelude == <<250, 1, 97, 1, 98, 254, 0, 251, 1, 0>>

\* The EndOfFile opcode and the 8 bytes of the checksum.
RdbEnd == <<255, 0, 0, 0, 0, 0, 0, 0, 0>>

\* Entries with and without expiry, the values as text.
ExpiryEntries ==
    {Entry("none", 0, "k", 0, "a", 0), Entry("none", 0, "j", 0, "b", 0),
     Entry("ms", 2, "k", 0, "b", 0), Entry("ms", 257, "j", 0, "a", 0),
     Entry("sec", 0, "j", 0, "a", 0), Entry("sec", 1, "k", 0, "a", 0)}

\* Entries whose value is an integer-encoded string.
IntegerEntries ==
    {Entry("none", 0, "k", 1, "", 5), Entry("none", 0, "k", 2, "", 1),
     Entry("none", 0, "j", 2, "", 258), Entry("none", 0, "j", 4, "", 1),
     Entry("ms", 2, "k", 4, "", 65536)}

\* The sequences of at most n entries of a set.
RECURSIVE EntryLists(_, _)
EntryLists(S, n) ==
    IF n = 0 THEN {<<>>}
    ELSE {<<>>} \cup {<<e>> \o es : e \in S, es \in EntryLists(S, n - 1)}

\* A snapshot file: what it was built from, and its bytes.
RdbFile(wellformed, entries, trailing, data) ==
    [phase |-> "file", wellformed |-> wellformed, entries |-> entries,
     trailing |-> trailing, data |-> data, result |-> RdbFail("None")]

\* A well-formed snapshot of the entries, with bytes behind the checksum.
WellFormed(prelude, entries, trailing) ==
    RdbFile(TRUE, entries, trailing,
            RdbHeader \o prelude \o EncodeEntries(entries) \o RdbEnd \o trailing)

\* Bytes that are no snapshot: too short, or with a wrong magic string.
NotASnapshot(data) == RdbFile(FALSE, <<>>, <<>>, data)

\* The Config of --dir d --dbfilename f.
SnapshotConfig ==
    ConfigInsert(ConfigInsert(<< >>, "Dir", <<"d">>), "DbFilename", <<"f.rdb">>)

\* The state in State::new before the file is read.
InitSnapshot(files, kinds) ==
    /\ InitState(SnapshotConfig, kinds)
    /\ resp = NoResp
    /\ snapshot \in files

\* State::new, lines 73-91: the file is read and decoded, and the store of
\* the State is what decode_rdb returns; with an error State::new returns
\* it and main ends.
LoadRdb ==
    /\ snapshot.phase = "file"
    /\ {"Dir", "DbFilename"} \subseteq DOMAIN config
    /\ LET result == DecodeRdb(snapshot.data) IN
         /\ snapshot' = [snapshot EXCEPT !.phase = "loaded", !.result = result]
         /\ store' = IF result.kind = "Ok" THEN result.store ELSE store
    /\ UNCHANGED <<role, config, handshake_state, send_rdb, now, ty, pc, input,
                   message, reciever, written, replica_senders, mailbox,
                   enqueued, accepted, handled, last_set, nreads, stream,
                   accepted_bytes, received_bytes, offset, resp, lock, stalled>>

\* main has its State: the listener accepts connections.
Serving == snapshot.phase = "loaded" /\ snapshot.result.kind = "Ok"

\* The decoder on its own: snapshots of every kind of entry, with and
\* without the opcodes in front and bytes behind the checksum, and bytes
\* that are no snapshot.
RdbFiles ==
    {WellFormed(p, es, t) :
        p \in {<<>>, RdbPrelude},
        es \in EntryLists(ExpiryEntries \cup IntegerEntries, MaxEntries),
        t \in {<<>>, <<10>>, <<0, 1, 107, 1, 98>>}}
    \cup {NotASnapshot(d) :
            d \in {MAGIC, SubSeq(RdbHeader \o RdbEnd, 1, 17),
                   BadHeader \o RdbEnd, BadHeader \o RdbPrelude \o RdbEnd,
                   SubSeq(BadHeader, 1, 5), <<>>}}

InitRdb == InitSnapshot(RdbFiles, <<>>)

NextRdb == LoadRdb

SpecRdb == InitRdb /\ [][NextRdb]_vars

\* A master that has loaded a snapshot of entries with and without expiry
\* and serves GET to one client while the clock advances.
LoadedFiles ==
    {WellFormed(<<>>, es, <<>>) : es \in EntryLists(ExpiryEntries, MaxLoadedEntries)}

LoadedFrames == {[Frame("GET") EXCEPT !.key = k] : k \in Keys}

InitLoaded == InitSnapshot(LoadedFiles, <<"Client">>)

NextLoaded ==
    \/ LoadRdb
    \/ Serving /\ Tick
    \/ \E c \in Conns : Serving /\ PollOutgoing(c)
    \/ \E c \in Conns : Serving /\ ReadNothing(c)
    \/ \E c \in Conns : \E f \in LoadedFrames :
          Serving /\ ReadBytes(c, f, MaxLoadedReads)
    \/ \E c \in Conns : Serving /\ Dispatch(c)
    \/ \E c \in Conns : Serving /\ Fanout(c)

SpecLoaded == InitLoaded /\ [][NextLoaded]_vars

----------------------------------------------------------------------------
(* Helpers of the properties. *)

Last(q) == q[Len(q)]

OfType(q, types) == SelectSeq(q, LAMBDA m : m.type \in types)

\* The connections whose mailbox is in the registry.
Registered == {replica_senders[i] : i \in DOMAIN replica_senders}

\* A message that reaches a socket by way of a mailbox: a propagated command.
Commands == {"Set", "GetRequest"}

\* A frame SET k v PX d whose d parses (message.rs, the "SET" arm).
IsPx(f) == f.name = "SET" /\ ToAsciiUppercase(f.opt) = "PX" /\ f.ms >= 0

\* p is a subsequence of q.
RECURSIVE IsSubsequence(_, _)
IsSubsequence(p, q) ==
    IF p = <<>> THEN TRUE
    ELSE IF q = <<>> THEN FALSE
    ELSE IF Head(p) = Head(q) THEN IsSubsequence(Tail(p), Tail(q))
    ELSE IsSubsequence(p, Tail(q))

\* The position of a handshake state in the order of HandshakeState.
HandshakeRank(hs) ==
    CASE hs = "Init" -> 0
      [] hs = "PingSent" -> 1
      [] hs = "PongRcvd" -> 2
      [] hs = "ReplConf1Sent" -> 3
      [] hs = "ReplConf1Rcvd" -> 4
      [] hs = "ReplConf2Sent" -> 5
      [] hs = "ReplConf2Rcvd" -> 6
      [] hs = "PSyncSent" -> 7
      [] OTHER -> 8

RECURSIVE Sum(_, _)
Sum(f, S) ==
    IF S = {} THEN 0
    ELSE LET x == CHOOSE y \in S : TRUE IN f[x] + Sum(f, S \ {x})

\* How many messages of a type and key were written, over all connections.
Produced(t, k) ==
    Sum([c \in Conns |->
            Len(SelectSeq(written[c], LAMBDA m : m.type = t /\ m.key = k))], Conns)

\* How many messages of a type were handled, over all connections.
Handled(t) ==
    Sum([c \in Conns |-> Len(SelectSeq(handled[c], LAMBDA x : x = t))], Conns)

----------------------------------------------------------------------------
(* C1: on a master, a write command accepted from a Client is enqueued     *)
(* exactly once into every registered mailbox (here: every registered      *)
(* mailbox whose replica task is still running gets it appended by the     *)
(* fan-out step of that command), and the SETs of one client keep their    *)
(* acceptance order in every mailbox.                                      *)
C1_OrderPerClient ==
    \A r \in Conns : \A i, j \in DOMAIN enqueued[r] :
        (/\ i < j
         /\ enqueued[r][i].type = "Set" /\ enqueued[r][j].type = "Set"
         /\ enqueued[r][i].src = enqueued[r][j].src)
        => enqueued[r][i].ord < enqueued[r][j].ord

C1_FanoutStep ==
    \A c \in Conns :
        (pc[c] = "fan" /\ pc'[c] # "fan" /\ message[c].type = "Set")
        => \A r \in Registered :
              ~Stopped(r) => enqueued'[r] = Append(enqueued[r], message[c])

C1_EveryMailboxOnce == [][C1_FanoutStep]_vars /\ []C1_OrderPerClient

(* C2: every mailbox holds the SETs in the order in which the master       *)
(* applied them to its store, also across client connections.              *)
C2_AcceptanceOrder ==
    \A r \in Conns : \A i, j \in DOMAIN enqueued[r] :
        (i < j /\ enqueued[r][i].type = "Set" /\ enqueued[r][j].type = "Set")
        => enqueued[r][i].ord < enqueued[r][j].ord

(* C3: only write commands propagate: is_write_command is false for GET,   *)
(* so every message ever enqueued to a replica mailbox is a SET and a GET  *)
(* that a client sent is never enqueued.                                   *)
C3_OnlySetPropagates ==
    \A r \in Conns : \A i \in DOMAIN enqueued[r] : enqueued[r][i].type = "Set"

(* C4: what a master writes to a connection that sent one PSYNC ? -1 is,   *)
(* in this order, one FullResync, one DatabaseFile, and only then          *)
(* propagated commands.                                                    *)
C4_ResyncStream ==
    \A c \in Conns :
        Len(SelectSeq(handled[c], LAMBDA t : t = "PSync")) = 1 =>
            LET w == OfType(written[c], {"FullResync", "DatabaseFile"} \cup Commands)
            IN  /\ Len(w) >= 1 => w[1].type = "FullResync"
                /\ Len(w) >= 2 => w[2].type = "DatabaseFile"
                /\ \A i \in DOMAIN w : i >= 3 => w[i].type \in Commands

(* C5: a slave's handshake state is Complete only if the replies handled   *)
(* on its master connection contain, in order, Pong, Ok, Ok, FullResync.   *)
C5_CompleteByMasterReplies ==
    \A c \in Conns :
        (role = "slave" /\ ty[c] = "Master" /\ handshake_state = "Complete")
        => IsSubsequence(<<"Pong", "Ok", "Ok", "FullResync">>, handled[c])

(* C6: on a slave, next_outgoing produces PING, REPLCONF listening-port    *)
(* <port>, REPLCONF capa psync2 and PSYNC ? -1 in this order, each exactly *)
(* once when the handshake passes its step and never before, and each one  *)
(* after PING only after the reply to the one before it was handled.       *)
C6_HandshakeRequests ==
    role = "slave" =>
        LET rank == HandshakeRank(handshake_state) IN
        /\ Produced("Ping", "") = (IF rank >= 1 THEN 1 ELSE 0)
        /\ Produced("ReplicationConfig", "listening-port") = (IF rank >= 3 THEN 1 ELSE 0)
        /\ Produced("ReplicationConfig", "capa") = (IF rank >= 5 THEN 1 ELSE 0)
        /\ Produced("PSync", "") = (IF rank >= 7 THEN 1 ELSE 0)
        /\ rank >= 2 => Handled("Pong") >= 1
        /\ rank >= 4 => Handled("Ok") >= 1
        /\ rank >= 6 => Handled("Ok") >= 2
        /\ \A c \in Conns : \A i \in DOMAIN written[c] :
              /\ written[c][i].key = "listening-port"
                    => config_port # <<>> /\ written[c][i].value = config_port[1]
              /\ written[c][i].key = "capa" => written[c][i].value = "psync2"
              /\ written[c][i].type = "PSync"
                    => written[c][i].replication_id = "?" /\ written[c][i].offset = -1

(* C7: a GET k handled at time t after SET k v PX d was handled at t0 (the *)
(* last SET of k) is answered Found(v) when t < t0 + d and NotFound when   *)
(* t > t0 + d.                                                             *)
C7_ExpiryWindow ==
    \A c \in Conns :
        (/\ pc[c] = "fan"
         /\ message[c].type = "GetRequest"
         /\ message[c].key \in DOMAIN last_set
         /\ IsPx(last_set[message[c].key].frame))
        => LET s == last_set[message[c].key]
               t == message[c].at
           IN  /\ t < s.at + s.frame.ms
                    => /\ Last(written[c]).type = "GetResponseFound"
                       /\ Last(written[c]).value = s.frame.value
               /\ t > s.at + s.frame.ms
                    => Last(written[c]).type = "GetResponseNotFound"

\* A GET was answered NotFound after the expiry of a key set with PX.
C7_Witness ==
    \E c \in Conns :
        /\ pc[c] = "fan"
        /\ message[c].type = "GetRequest"
        /\ message[c].key \in DOMAIN last_set
        /\ IsPx(last_set[message[c].key].frame)
        /\ message[c].at > last_set[message[c].key].at
                              + last_set[message[c].key].frame.ms
        /\ Last(written[c]).type = "GetResponseNotFound"

(* C8: the step that handles a GET leaves the store as it was: the same    *)
(* keys and, for each, the same data, updated instant and expiry.          *)
C8_GetStep ==
    \A c \in Conns :
        (/\ pc[c] = "dispatch"
         /\ pc'[c] # "dispatch"
         /\ Deserialize(Head(input[c])).type = "GetRequest")
        => /\ DOMAIN store' = DOMAIN store
           /\ \A k \in DOMAIN store : store'[k] = store[k]

C8_GetKeepsStore == [][C8_GetStep]_vars

\* A GET was answered NotFound for an expired key that is still stored.
C8_Witness ==
    \E c \in Conns :
        /\ pc[c] = "fan"
        /\ message[c].type = "GetRequest"
        /\ message[c].key \in DOMAIN store
        /\ store[message[c].key].expiry.some
        /\ message[c].at > store[message[c].key].updated
                              + store[message[c].key].expiry.ms
        /\ Last(written[c]).type = "GetResponseNotFound"

(* C9: when a master has handled SET k v [PX d], the entry of k is exactly *)
(* (v, the instant of the SET, d or no expiry) and the reply is Ok; a GET  *)
(* of a key whose entry is not expired is answered with the value of the   *)
(* last SET of that key.                                                   *)
C9_SetReplaces ==
    \A c \in Conns :
        /\ (pc[c] = "fan" /\ message[c].type = "Set")
           => LET f == last_set[message[c].key].frame IN
              /\ message[c].key \in DOMAIN store
              /\ store[message[c].key].data = f.value
              /\ store[message[c].key].updated = message[c].at
              /\ store[message[c].key].expiry = (IF IsPx(f) THEN Some(f.ms) ELSE None)
              /\ Last(written[c]).type = "Ok"
        /\ (/\ pc[c] = "fan"
            /\ message[c].type = "GetRequest"
            /\ message[c].key \in DOMAIN last_set
            /\ LET s == last_set[message[c].key]
               IN  IsPx(s.frame) => message[c].at <= s.at + s.frame.ms)
           => /\ Last(written[c]).type = "GetResponseFound"
              /\ Last(written[c]).value = last_set[message[c].key].frame.value

\* A SET without PX replaced an entry that had an expiry.
C9_Witness ==
    \E c \in Conns :
        /\ pc[c] = "fan"
        /\ message[c].type = "Set"
        /\ last_set[message[c].key].over
        /\ last_set[message[c].key].frame.opt = ""
        /\ store[message[c].key].expiry = None
        /\ store[message[c].key].data = "b"
        /\ Last(written[c]).type = "Ok"

(* C10: on a slave, a SET handled on the connection of kind Master is in   *)
(* the slave's store afterwards, is not answered, and the task of that     *)
(* connection goes on.                                                     *)
C10_SlaveAppliesSet ==
    \A c \in Conns :
        (/\ role = "slave"
         /\ ty[c] = "Master"
         /\ message[c].type = "Set"
         /\ pc[c] # "dispatch")
        => /\ pc[c] # "panicked"
           /\ message[c].key \in DOMAIN store
           /\ store[message[c].key].data = message[c].value
           /\ \A i \in DOMAIN written[c] : written[c][i].type # "Ok"

(* C11: on a slave whose handshake is Complete, the task of the Master     *)
(* connection does not end on a DatabaseFile: it is not stopped with the   *)
(* snapshot as the message it handled last or as the next bytes to parse.  *)
C11_SnapshotAccepted ==
    \A c \in Conns :
        (/\ role = "slave"
         /\ ty[c] = "Master"
         /\ handshake_state = "Complete"
         /\ Handled("FullResync") >= 1
         /\ pc[c] = "panicked")
        => /\ message[c].type # "DatabaseFile"
           /\ input[c] # <<>> => Head(input[c]).name # "$RAW"

(* C12: the replication offset a master reports, in a FullResync reply and *)
(* as master_repl_offset of INFO, is the number of serialized bytes of the *)
(* write commands it has accepted from clients since it shipped a snapshot. *)
C12_OffsetCountsBytes ==
    role = "master" =>
        /\ MasterReply(store, Msg("InfoRequest"), now).offset = accepted_bytes
        /\ MasterReply(store, [Msg("PSync") EXCEPT !.replication_id = "?",
                                                   !.offset = -1], now).offset
              = accepted_bytes

(* C13: a slave's offset counter is the number of wire bytes of the        *)
(* messages it has received on its Master connection, DatabaseFile and     *)
(* FullResync aside; messages of other connections do not count.           *)
C13_OffsetCountsWire == role = "slave" => offset = received_bytes

(* C14: no command of a client ends its connection task: a client task     *)
(* that was sent only complete frames is never stopped by a panic.         *)
C14_ClientTaskSurvives ==
    \A c \in Conns :
        (role = "master" /\ ty[c] = "Client" /\ stream[c].split = 0)
        => pc[c] # "panicked"

(* C15: a connection that was sent only complete frames is written at     *)
(* most one -ERR reply for each frame that failed to deserialize.          *)
C15_OneErrorPerFrame ==
    \A c \in Conns : stream[c].split = 0 => Errors(c) <= stream[c].bad

(* C16: a connection task whose read returned 0 bytes has terminated.      *)
C16_EofEndsTask ==
    \A c \in Conns : stream[c].eof => pc[c] = "ended"

(* C17: a read that ends inside a frame neither stops the task nor is it   *)
(* answered: the task goes on to the next read with the bytes retained,    *)
(* and no -ERR is written for them.                                        *)
C17_PartialFrameRetained ==
    \A c \in Conns :
        stream[c].split > 0
        => /\ pc[c] # "panicked"
           /\ Errors(c) <= stream[c].bad

(* C19: on a master, a WAIT of a client is answered with a WaitReply and   *)
(* the task of the connection goes on.                                     *)
C19_WaitAnswered ==
    \A c \in Conns :
        (/\ role = "master"
         /\ message[c].type = "Wait"
         /\ pc[c] # "dispatch")
        => /\ pc[c] # "panicked"
           /\ written[c] # <<>>
           /\ Last(written[c]).type = "WaitReply"

\* The replies written to a connection, in the order of their writes.
Replies(c) == SelectSeq(written[c], LAMBDA m : m.re > 0)

\* The replies State::handle_incoming has for a request.
ReplyTypes(t) ==
    CASE t = "Ping" -> {"Pong"}
      [] t = "Set" -> {"Ok"}
      [] t = "GetRequest" -> {"GetResponseFound", "GetResponseNotFound"}
      [] t = "InfoRequest" -> {"InfoResponse"}
      [] t = "ReplicationConfig" -> {"Ok"}
      [] t = "PSync" -> {"FullResync"}
      [] OTHER -> {}

(* C18: the replies written to a connection are in the order of the        *)
(* requests they answer, one reply at most for a request, each of the kind *)
(* of its request, also for requests that came in one read.                *)
C18_RepliesInOrder ==
    \A c \in Conns :
        /\ \A i, j \in DOMAIN Replies(c) :
              i < j => Replies(c)[i].re < Replies(c)[j].re
        /\ \A i \in DOMAIN Replies(c) :
              /\ Replies(c)[i].re \in DOMAIN handled[c]
              /\ Replies(c)[i].type \in ReplyTypes(handled[c][Replies(c)[i].re])

\* Two requests of one read were answered while another connection was served.
C18_Witness ==
    \E c \in Conns :
        /\ stream[c].piped > 0
        /\ input[c] = <<>>
        /\ Len(Replies(c)) >= 2
        /\ Replies(c)[1].type = "Ok"
        /\ Replies(c)[2].type = "GetResponseFound"
        /\ \E d \in Conns \ {c} : handled[d] # <<>>

\* The variants the round trip is stated for.
RoundTripVariants ==
    {"SimpleString", "SimpleError", "Integer", "BulkString", "NullBulkString",
     "Array", "NullArray", "Null", "Boolean", "BigNumber"}

\* The bytes parsed cleanly, with nothing left over, and were serialized again.
RoundTripped ==
    /\ resp.phase = "serialized"
    /\ resp.result.rest = <<>>
    /\ resp.result.value.variant \in RoundTripVariants

HasPayload(data) ==
    /\ data # <<>>
    /\ data[1] = "$"
    /\ FindTerminator(data) # 0 - 1
    /\ ParseUsize(Slice(data, 1, FindTerminator(data))).ok
    /\ FindTerminator(data) + 2
         + ParseUsize(Slice(data, 1, FindTerminator(data))).n <= Len(data)

PayloadStart(data) == FindTerminator(data) + 2
PayloadEnd(data) ==
    PayloadStart(data) + ParseUsize(Slice(data, 1, FindTerminator(data))).n

\* C21: a $N header followed by N payload bytes parses as BulkString when
\* the two bytes after the payload are "\r\n", and otherwise (also when the
\* payload ends the buffer) as RawBytes of exactly those N bytes with the
\* remainder starting right after the payload; a RawBytes value serializes to
\* the header and the payload with no trailing "\r\n".
C21_BulkOrRawBytes ==
    (resp.phase # "idle" /\ HasPayload(resp.data)) =>
        LET data == resp.data
            payload == Slice(data, PayloadStart(data), PayloadEnd(data))
            crlf == /\ PayloadEnd(data) + 2 <= Len(data)
                    /\ Slice(data, PayloadEnd(data), PayloadEnd(data) + 2)
                         = TERMINATOR
        IN  /\ resp.result.kind = "Ok"
            /\ resp.result.value.s = payload
            /\ IF crlf
               THEN /\ resp.result.value.variant = "BulkString"
                    /\ resp.result.rest = SliceFrom(data, PayloadEnd(data) + 2)
               ELSE /\ resp.result.value.variant = "RawBytes"
                    /\ resp.result.rest = SliceFrom(data, PayloadEnd(data))
                    /\ resp.phase = "serialized" =>
                         resp.out = <<"$">>
                                    \o IntToString(PayloadEnd(data) - PayloadStart(data))
                                    \o TERMINATOR \o payload

\* The Config without what an unrecognized flag put into it.
WithoutUnknown(cfg) == [k \in DOMAIN cfg \ {"Unknown"} |-> cfg[k]]

\* A reply without its history fields.
Plain(m) == [m EXCEPT !.re = 0, !.src = 0, !.ord = 0, !.at = 0]

\* C22: an unrecognized --<name> <value> flag is inert: a CONFIG GET of any
\* parameter name gets the reply, and leaves the connection in the state, it
\* gets and leaves without that flag.
C22_UnknownFlagInert ==
    \A c \in Conns :
        (role = "master" /\ message[c].type = "ConfigGetRequest") =>
            /\ pc[c] # "panicked"
            /\ written[c] # <<>>
            /\ Plain(Last(written[c]))
                 = ConfigGetReply(WithoutUnknown(config), message[c].key)

\* The flag of parameter name p was on the command line (the one name the
\* model has that is no recognized parameter is foo).
Configured(p) ==
    /\ ConfigKeyDeserialize(p) \in DOMAIN config
    /\ ConfigKeyDeserialize(p) = "Unknown" => p = "foo"

\* C23: CONFIG GET p on a master replies with the array of p and its
\* configured values (one for dir, dbfilename and port, two for replicaof)
\* when p is a recognized parameter that is configured, and with a null
\* reply when p is not configured; the store stays as it was.
C23_ConfigGetReply ==
    \A c \in Conns :
        (role = "master" /\ message[c].type = "ConfigGetRequest") =>
            LET p == message[c].value
                k == ConfigKeyDeserialize(p)
            IN  /\ (k # "Unknown" /\ Configured(p)) =>
                      /\ pc[c] # "panicked"
                      /\ written[c] # <<>>
                      /\ Last(written[c]).type = "ConfigGetResponse"
                      /\ Last(written[c]).value # "None"
                      /\ ConfigKeySerialize(Last(written[c]).key)
                           = ToAsciiLowercase(p)
                      /\ Last(written[c]).values = config[k]
                      /\ Len(config[k]) = IF k = "ReplicaOf" THEN 2 ELSE 1
                /\ ~Configured(p) =>
                      /\ pc[c] # "panicked"
                      /\ written[c] # <<>>
                      /\ Last(written[c]).type = "ConfigGetResponse"
                      /\ Last(written[c]).value = "None"
                /\ store = << >>

\* C24, what INFO reports: the role is slave exactly when replicaof is
\* configured; INFO with no section or with the section replication is
\* answered with that role, and INFO that names only other sections with
\* NullBulkString.
C24_InfoReportsRole ==
    /\ role = IF "ReplicaOf" \in DOMAIN config THEN "slave" ELSE "master"
    /\ \A c \in Conns :
          message[c].type = "InfoRequest" =>
              LET sections == message[c].sections
                  asked == \/ sections = <<>>
                           \/ \E i \in DOMAIN sections : sections[i] = "replication"
              IN  /\ pc[c] # "panicked"
                  /\ written[c] # <<>>
                  /\ Last(written[c]).type = "InfoResponse"
                  /\ IF asked
                     THEN /\ InfoResponseValue(Last(written[c])) = "OwnedBulkString"
                          /\ Last(written[c]).key = "role"
                          /\ Last(written[c]).value = role
                     ELSE InfoResponseValue(Last(written[c])) = "NullBulkString"

\* C24: the role is fixed at startup by the configuration and never changes,
\* and INFO reports it as C24_InfoReportsRole says.
C24_RoleFixed == []C24_InfoReportsRole /\ [][role' = role]_vars

\* A slave answered an INFO that names only the section server, and a
\* master is not in this state.
C24_Witness ==
    /\ role = "slave"
    /\ \E c \in Conns :
          /\ message[c].type = "InfoRequest"
          /\ message[c].sections = <<"server">>
          /\ written[c] # <<>>
          /\ Last(written[c]).type = "InfoResponse"
          /\ Last(written[c]).sections = <<>>

\* C25: the State lock is never held across a socket read or write: while a
\* connection task is suspended in the write of a reply or of a
\* next_outgoing message, or is in its socket read, no task holds the lock,
\* so that the other connections go on processing commands.
C25_LockFreeDuringIo ==
    \A c \in Conns :
        pc[c] \in {"read", "out_write", "reply_write"} => lock = 0

\* The connection was sent a FullResync before the message was accepted.
ResyncedBefore(r, m) ==
    \E i \in DOMAIN written[r] :
        written[r][i].type = "FullResync" /\ written[r][i].ord < m.ord

\* C26: registering a replica's mailbox is atomic with handling its PSYNC:
\* when the fan-out of a SET completes while every connection task is
\* running, the SET is appended to the mailbox of every connection whose
\* FullResync reply was produced before the master accepted that SET.
C26_FanoutStep ==
    \A c \in Conns :
        (/\ pc[c] = "fan" /\ pc'[c] # "fan" /\ message[c].type = "Set"
         /\ \A d \in Conns : ~Stopped(d))
        => \A r \in Conns :
              ResyncedBefore(r, message[c])
              => enqueued'[r] = Append(enqueued[r], message[c])

C26_RegisteredWithPsync == [][C26_FanoutStep]_vars

\* C27: the DatabaseFile of a PSYNC goes to the connection that sent that
\* PSYNC, once per PSYNC: no connection has been written more DatabaseFiles
\* than FullResync replies, so a connection that sent no PSYNC has none.
C27_SnapshotToItsReplica ==
    \A c \in Conns :
        Len(OfType(written[c], {"DatabaseFile"}))
            <= Len(OfType(written[c], {"FullResync"}))

\* How many senders of the registry belong to the connection.
Mailboxes(c) == Len(SelectSeq(replica_senders, LAMBDA x : x = c))

\* C28: on a master a connection is of kind Slave exactly from the handling
\* of its first PSYNC ? -1 on (the FullResync reply is written in that
\* step); it then has one sender in the registry, none before, and never
\* two; only a connection of kind Client reaches the fan-out, and every SET
\* of the connection that is in a mailbox was accepted before its
\* FullResync.
C28_ReplicaHasOneMailbox ==
    \A c \in Conns :
        /\ ty[c] = "Slave" <=> OfType(written[c], {"FullResync"}) # <<>>
        /\ ty[c] = "Client" => Mailboxes(c) = 0
        /\ ty[c] = "Slave" => Mailboxes(c) = IF pc[c] = "reg" THEN 0 ELSE 1
        /\ pc[c] = "fan" => ty[c] = "Client"
        /\ \A r \in Conns : \A i \in DOMAIN enqueued[r] :
              enqueued[r][i].src = c => ~ResyncedBefore(c, enqueued[r][i])

\* The kind Slave is kept.
C28_StaysReplica == \A c \in Conns : ty[c] = "Slave" => ty'[c] = "Slave"

C29_FanoutStep ==
    \A c \in Conns :
        (/\ pc[c] = "fan" /\ pc'[c] # "fan" /\ message[c].type = "Set"
         /\ \E r \in Registered : Stopped(r))
        => /\ pc'[c] \notin {"ended", "panicked"}
           /\ written'[c] # <<>> /\ Last(written'[c]).type = "Ok"
           /\ \A r \in Registered :
                 ~Stopped(r) => enqueued'[r] = Append(enqueued[r], message[c])
           /\ \A i \in DOMAIN replica_senders' :
                 pc'[replica_senders'[i]] \notin {"ended", "panicked"}

C29_StaleSenderPruned == [][C29_FanoutStep]_vars

\* What was written to the connection from its mailbox followed by what is
\* still in the mailbox is what was enqueued: nothing lost, nothing twice,
\* nothing out of order.
C30_Fifo ==
    \A r \in Conns : OfType(written[r], Commands) \o mailbox[r] = enqueued[r]

C31_RegistryOfReplicas ==
    /\ \A c \in Conns :
          (reciever[c] \/ c \in Registered \/ pc[c] = "reg")
          => role = "master" /\ ty[c] = "Slave"
    /\ role = "slave" =>
          /\ replica_senders = <<>>
          /\ \A c \in Conns :
                /\ pc[c] \notin {"reg", "fan"}
                /\ enqueued[c] = <<>> /\ mailbox[c] = <<>>
    /\ \A c \in Conns : ty[c] = "Master" => ~reciever[c] /\ c \notin Registered

\* A slave that has handled a reply of its master and a request of a client.
C31_Witness ==
    /\ role = "slave" /\ ty[1] = "Master"
    /\ handled[1] # <<>> /\ handled[2] # <<>>
    /\ replica_senders = <<>>

\* The tags that have an arm which reads a frame.
FrameTags == {"+", "-", ":", "$", "*", "_", "#", "("}

\* The bytes do not hold the whole of their first frame: its line has no
\* terminator, or it is a $ frame whose payload and the two bytes after it
\* are not all there.
Incomplete(data) ==
    /\ data # <<>> /\ data[1] \in FrameTags
    /\ \/ FindTerminator(data) = 0 - 1
       \/ /\ data[1] = "$"
          /\ ParseUsize(Slice(data, 1, FindTerminator(data))).ok
          /\ PayloadEnd(data) + 2 > Len(data)

\* The errors deserialize gives for a frame whose line is terminated.
MalformedErrors ==
    {"invalid integer", "invalid bulk string/raw bytes", "invalid array",
     "non-empty null", "invalid boolean", "invalid big number",
     "invalid RESP tag"}

\* C32: bytes that do not yet hold the whole of their first frame are
\* reported as incomplete: deserialize returns an error, does not panic,
\* and the error is none of those it gives for a malformed frame.
C32_IncompleteReported ==
    (resp.phase # "idle" /\ Incomplete(resp.data))
    => /\ resp.result.kind = "Err"
       /\ resp.result.error \notin MalformedErrors

\* A body of the form [+-]?[0-9]+.
SignedDigits(s) ==
    /\ s # <<>>
    /\ IsDigits(IF s[1] \in {"+", "-"} THEN Tail(s) ELSE s)

\* C33: a big-number frame is accepted exactly when its body is an optional
\* sign followed by at least one digit; an empty body and a body that is a
\* sign alone are rejected with an error.
C33_BigNumberBody ==
    (/\ resp.phase # "idle"
     /\ resp.data[1] = "("
     /\ FindTerminator(resp.data) # 0 - 1)
    => LET body == Slice(resp.data, 1, FindTerminator(resp.data))
       IN  IF SignedDigits(body)
           THEN resp.result.kind = "Ok" /\ resp.result.value.variant = "BigNumber"
                /\ resp.result.value.s = body
           ELSE resp.result.kind = "Err"

\* C38: deserialize is total on non-empty input: whatever the bytes, and so
\* for an array header with fewer elements behind it than it declares and
\* for a frame with one of the reserved tags, it returns a value or an
\* error and does not panic.
C38_DeserializeTotal ==
    (resp.phase # "idle" /\ resp.data # <<>>) => resp.result.kind \in {"Ok", "Err"}

\* What the entries of a snapshot say the store holds: for every key its
\* last entry, an integer-encoded value as its decimal text, the expiry as
\* the timestamp in milliseconds.
RECURSIVE StoreOfEntries(_, _)
StoreOfEntries(es, st) ==
    IF es = <<>> THEN st
    ELSE LET e == Head(es) IN
         StoreOfEntries(
            Tail(es),
            Insert(st, e.key,
                   [data |-> IF e.int = 0 THEN e.value ELSE Decimal(e.n),
                    updated |-> 0,
                    expiry |-> CASE e.exp = "ms" -> UnixTimestampMillis(e.t)
                                 [] e.exp = "sec" -> UnixTimestampMillis(e.t * 1000)
                                 [] OTHER -> None]))

\* C34: an integer-encoded string of the snapshot (format 0, 1 or 2: one
\* byte, two bytes little-endian, four bytes little-endian) is stored as
\* the decimal text of its integer, and parse_string reports 1 plus 1, 2 or
\* 4 bytes read: the values of a well-formed snapshot's keys are those its
\* entries say.
C34_IntegerStrings ==
    (snapshot.phase = "loaded" /\ snapshot.wellformed)
    => /\ snapshot.result.kind = "Ok"
       /\ \A k \in DOMAIN StoreOfEntries(snapshot.entries, << >>) :
             /\ k \in DOMAIN store
             /\ store[k].data = StoreOfEntries(snapshot.entries, << >>)[k].data
       /\ \A i \in DOMAIN snapshot.entries :
             LET e == snapshot.entries[i] IN
             e.int > 0 =>
                ParseString(EncodeInteger(e.n, e.int))
                    = StringOk(Decimal(e.n), 1 + e.int)

\* C35: a key loaded from a snapshot behind an ExpireTimeMillis or
\* ExpireTimeSecs opcode has the expiry UnixTimestampMillis of the opcode's
\* little-endian number (the seconds times 1000), a key loaded without one
\* has no expiry, and a GET of a loaded key is answered NotFound exactly
\* when the wall clock read by its handler is greater than the timestamp,
\* and else Found with the value loaded.
C35_LoadedExpiry ==
    Serving =>
        LET loaded == StoreOfEntries(snapshot.entries, << >>) IN
        /\ DOMAIN store = DOMAIN loaded
        /\ \A k \in DOMAIN loaded : store[k].expiry = loaded[k].expiry
        /\ \A c \in Conns :
              (/\ pc[c] = "fan"
               /\ message[c].type = "GetRequest"
               /\ message[c].key \in DOMAIN loaded)
              => LET v == loaded[message[c].key]
                     late == /\ IsUnixTimestamp(v.expiry)
                             /\ UnixTime(message[c].at) > v.expiry.ms
                 IN  IF late
                     THEN Last(written[c]).type = "GetResponseNotFound"
                     ELSE /\ Last(written[c]).type = "GetResponseFound"
                          /\ Last(written[c]).value = v.data

\* A snapshot of two keys was loaded, one with a timestamp and one without,
\* and a GET of the first was answered NotFound after its timestamp.
C35_Witness ==
    /\ Serving
    /\ \E k \in DOMAIN store : store[k].expiry = None
    /\ \E c \in Conns :
          /\ pc[c] = "fan"
          /\ message[c].type = "GetRequest"
          /\ message[c].key \in DOMAIN store
          /\ store[message[c].key].expiry = UnixTimestampMillis(2)
          /\ message[c].at > 2
          /\ Last(written[c]).type = "GetResponseNotFound"

\* C36: decode_rdb returns an error, and does not panic, for bytes that are
\* fewer than 18 or do not begin with REDIS; a well-formed snapshot is
\* decoded up to its EndOfFile opcode: what is behind the 8 bytes of the
\* checksum changes nothing, the keys of the store are those of the
\* entries, and without entries the store is empty.
C36_DecodeRdbFraming ==
    snapshot.phase = "loaded" =>
        /\ (Len(snapshot.data) < 18 \/ SubSeq(snapshot.data, 1, 5) # MAGIC)
              => snapshot.result.kind = "Err"
        /\ snapshot.wellformed =>
              /\ snapshot.result.kind = "Ok"
              /\ snapshot.result
                    = DecodeRdb(SubSeq(snapshot.data, 1,
                                       Len(snapshot.data) - Len(snapshot.trailing)))
              /\ DOMAIN store
                    = {snapshot.entries[i].key : i \in DOMAIN snapshot.entries}
              /\ snapshot.entries = <<>> => store = << >>

\* A snapshot without entries and with bytes behind its checksum was
\* decoded to an empty store.
C36_Witness ==
    /\ snapshot.phase = "loaded" /\ snapshot.wellformed
    /\ snapshot.entries = <<>> /\ snapshot.trailing # <<>>
    /\ snapshot.result.kind = "Ok" /\ store = << >>

\* C37: on a slave, the next_outgoing poll of a connection that is not of
\* kind Master writes no handshake message (PING, REPLCONF, PSYNC) to that
\* connection and leaves the handshake state as it was.
C37_HandshakeOnMasterConnection ==
    [][\A c \in Conns :
          (role = "slave" /\ ty[c] # "Master" /\ pc[c] = "out" /\ pc'[c] # "out")
          => /\ handshake_state' = handshake_state
             /\ OfType(written'[c], {"Ping", "ReplicationConfig", "PSync"})
                   = OfType(written[c], {"Ping", "ReplicationConfig", "PSync"})]_vars

\* C39: for every configuration of a slave, with or without a port, the
\* next_outgoing poll in handshake state PongRcvd writes REPLCONF
\* listening-port with the configured port, or 6379 without one, and
\* leaves handshake state ReplConf1Sent with the polling task running.
C39_ListeningPortStep ==
    [][\A c \in Conns :
          (role = "slave" /\ handshake_state = "PongRcvd"
             /\ pc[c] = "out" /\ pc'[c] # "out")
          => /\ handshake_state' = "ReplConf1Sent"
             /\ pc'[c] # "panicked"
             /\ Len(written'[c]) = Len(written[c]) + 1
             /\ LET m == written'[c][Len(written'[c])] IN
                  /\ m.type = "ReplicationConfig"
                  /\ m.key = "listening-port"
                  /\ m.value = IF config_port = <<>> THEN "6379"
                               ELSE config_port[1]]_vars

----------------------------------------------------------------------------
(* Message::serialize and Message::deserialize on FullResync, character by *)
(* character: the replication id of a message is here the sequence of its  *)
(* characters.                                                             *)
MaxIdLen == 2

\* char::to_ascii_uppercase on the characters of the ids below.
UpperChar(ch) ==
    CASE ch = "a" -> "A" [] ch = "b" -> "B" [] ch = "c" -> "C"
      [] ch = "d" -> "D" [] ch = "e" -> "E" [] ch = "f" -> "F"
      [] OTHER -> ch

\* str::to_ascii_uppercase.
AsciiUppercase(s) == [i \in 1..Len(s) |-> UpperChar(s[i])]

RECURSIVE SplitAsciiWhitespace(_)
\* str::split_ascii_whitespace: the words between runs of spaces.
SplitAsciiWhitespace(s) ==
    IF s = <<>> THEN <<>>
    ELSE IF Head(s) = " " THEN SplitAsciiWhitespace(Tail(s))
    ELSE LET stops == {i \in 1..Len(s) : s[i] = " "}
             end == IF stops = {} THEN Len(s) + 1
                    ELSE CHOOSE i \in stops : \A j \in stops : i <= j
         IN  <<SubSeq(s, 1, end - 1)>>
             \o SplitAsciiWhitespace(SubSeq(s, end, Len(s)))

\* str::starts_with.
StartsWith(s, prefix) ==
    Len(s) >= Len(prefix) /\ SubSeq(s, 1, Len(prefix)) = prefix

FULLRESYNC == <<"F", "U", "L", "L", "R", "E", "S", "Y", "N", "C">>

\* Message::serialize, the FullResync arm.
SerializeFullResync(m) ==
    RespSerialize([RespV("SimpleString") EXCEPT
                       !.s = FULLRESYNC \o <<" ">> \o m.replication_id
                             \o <<" ">> \o IntToString(m.offset)])

\* What Message::deserialize gives: Ok(message), Err or a panic.
MessageResult(kind, m) == [kind |-> kind, message |-> m]

\* Message::deserialize, the SimpleString arm.
DeserializeSimpleString(data) ==
    IF data = <<>> THEN MessageResult("Err", NoMessage)
    ELSE
    LET value == RespDeserialize(data) IN
    IF value.kind # "Ok" THEN MessageResult(value.kind, NoMessage)
    ELSE IF value.value.variant # "SimpleString" THEN MessageResult("Err", NoMessage)
    ELSE
    LET response == AsciiUppercase(value.value.s)
        parts == SplitAsciiWhitespace(response)
    IN  IF response = <<"P", "O", "N", "G">> THEN MessageResult("Ok", Msg("Pong"))
        ELSE IF response = <<"O", "K">> THEN MessageResult("Ok", Msg("Ok"))
        ELSE IF StartsWith(response, FULLRESYNC)
        THEN IF Len(parts) < 3 THEN MessageResult("Panic", NoMessage)
             ELSE IF ~ParseI64(parts[3]).ok THEN MessageResult("Err", NoMessage)
             ELSE MessageResult("Ok",
                      [Msg("FullResync") EXCEPT
                           !.replication_id = parts[2],
                           !.offset = ParseI64(parts[3]).n])
        ELSE MessageResult("Err", NoMessage)

\* The replication id of the master, and shorter ids of hexadecimal digits.
ReplicationIdChars ==
    <<"8", "3", "7", "1", "b", "4", "f", "b", "1", "1", "5", "5", "b", "7",
      "1", "f", "4", "a", "0", "4", "d", "3", "e", "1", "b", "c", "3", "e",
      "1", "8", "c", "4", "a", "9", "9", "0", "a", "e", "e", "b">>

IdChars == {"8", "a", "E"}

RECURSIVE IdsOfLen(_)
IdsOfLen(n) ==
    IF n = 0 THEN {<<>>}
    ELSE {<<ch>> \o id : ch \in IdChars, id \in IdsOfLen(n - 1)}

ReplicationIds == {ReplicationIdChars} \cup UNION {IdsOfLen(n) : n \in 1..MaxIdLen}

\* The offsets of a FullResync: the master's 0, and others.
ResyncOffsets == {0 - 1, 0, 1, 12}

\* The codec at rest with a message to serialize.
NoRoundTrip(m) ==
    [phase |-> "idle", message |-> m, data |-> <<>>,
     result |-> MessageResult("None", NoMessage)]

InitRoundTrip ==
    /\ InitServer("master", <<>>, <<"Client">>)
    /\ \E id \in ReplicationIds : \E n \in ResyncOffsets :
          resp = NoRoundTrip([Msg("FullResync") EXCEPT !.replication_id = id,
                                                       !.offset = n])
    /\ snapshot = NoRdb

SerializeMessage ==
    /\ resp.phase = "idle"
    /\ resp' = [resp EXCEPT !.phase = "serialized",
                            !.data = SerializeFullResync(resp.message)]
    /\ UNCHANGED server_vars

DeserializeMessage ==
    /\ resp.phase = "serialized"
    /\ resp' = [resp EXCEPT !.phase = "deserialized",
                            !.result = DeserializeSimpleString(resp.data)]
    /\ UNCHANGED server_vars

NextRoundTrip ==
    \/ SerializeMessage
    \/ DeserializeMessage

SpecRoundTrip == InitRoundTrip /\ [][NextRoundTrip]_vars

\* C40: deserializing the serialized form of a FullResync gives a
\* FullResync with the same replication id, character for character with
\* the case of its letters, and the same offset.
C40_FullResyncRoundTrip ==
    resp.phase = "deserialized" =>
        /\ resp.result.kind = "Ok"
        /\ resp.result.message.type = "FullResync"
        /\ resp.result.message.replication_id = resp.message.replication_id
        /\ resp.result.message.offset = resp.message.offset

============================================================================
